---- MODULE Spec2Model ----
(***************************************************************************)
(* sh-server: path-addressable shell scripts served over HTTP, with        *)
(* per-script password locks (password -> short-lived token -> content).   *)
(*                                                                         *)
(* Strings are modelled as sequences of string fragments; a path is a      *)
(* sequence of single characters, so that prefix/suffix tests and the      *)
(* split on "/" are computed as the code computes them.  The empty string  *)
(* is << >>.  A script's content is the sequence of its lines              *)
(* (strings.Split(content, "\n")), each line a string.                     *)
(***************************************************************************)
EXTENDS Naturals, Sequences, FiniteSets, TLC

VARIABLES
    scripts,       \* table scripts: set of rows
    folders,       \* table folders: set of rows
    tokens,        \* table auth_tokens: set of rows
    versions,      \* table script_versions: sequence of rows (AUTOINCREMENT id)
    audit,         \* table audit_log: sequence of rows (AUTOINCREMENT id)
    uuids,         \* number of uuid.New() values that were stored so far
    foreign_keys,  \* whether the connection enforces FOREIGN KEY ... ON DELETE CASCADE
    admin_token,   \* Server.AdminToken, from ADMIN_TOKEN; the empty string when unset
    now,           \* time.Now(), in ticks
    req,           \* the request the server handled last at the current instant
    resp,          \* its response
    calls          \* the requests served concurrently: each one's position in its handler

vars == <<scripts, folders, tokens, versions, audit, uuids, foreign_keys, admin_token, now, req, resp,
          calls>>

store == <<scripts, folders, tokens, versions, audit, uuids>>

-----------------------------------------------------------------------------
(* Bounds of the model *)

\* clock ticks per second (time.Now() is finer than the second of RFC3339)
TicksPerSecond == 2
\* the clock visits the instants 0..MaxEarly and a window around the token TTL
MaxEarly == 1
\* rows of auth_tokens
MaxTokens == 2
\* unlock attempts that write an audit entry
MaxUnlocks == 4
\* admin writes (create, update, delete of a script) in the admin specification
MaxAdminOps == 3

\* characters between the leading "/" and the ending of a generated path
MaxBody == 2

\* uuid.New() values drawn in the folder specifications
MaxUuids == 6

-----------------------------------------------------------------------------
(* strings *)

Min(a, b) == IF a < b THEN a ELSE b

HasPrefix(s, p) == Len(s) >= Len(p) /\ SubSeq(s, 1, Len(p)) = p

HasSuffix(s, p) == Len(s) >= Len(p) /\ SubSeq(s, Len(s) - Len(p) + 1, Len(s)) = p

TrimPrefix(s, p) == IF HasPrefix(s, p) THEN SubSeq(s, Len(p) + 1, Len(s)) ELSE s

\* index of the last "/" of s, 0 when there is none
LastSlash(s) ==
    IF \E i \in 1..Len(s) : s[i] = "/"
    THEN CHOOSE i \in 1..Len(s) : s[i] = "/" /\ \A j \in (i + 1)..Len(s) : s[j] # "/"
    ELSE 0

\* s without its trailing slashes
RECURSIVE StripSlashes(_)
StripSlashes(s) ==
    IF Len(s) > 0 /\ s[Len(s)] = "/" THEN StripSlashes(SubSeq(s, 1, Len(s) - 1)) ELSE s

\* filepath.Base
Base(path) ==
    IF path = << >> THEN <<".">>
    ELSE LET p == StripSlashes(path)
         IN  IF p = << >> THEN <<"/">>
             ELSE SubSeq(p, LastSlash(p) + 1, Len(p))

extractName(path) == Base(path)

\* strings.Split(s, "/")
RECURSIVE Split(_)
Split(s) ==
    IF \A i \in 1..Len(s) : s[i] # "/" THEN <<s>>
    ELSE LET i == CHOOSE k \in 1..Len(s) : s[k] = "/" /\ \A j \in 1..(k - 1) : s[j] # "/"
         IN  <<SubSeq(s, 1, i - 1)>> \o Split(SubSeq(s, i + 1, Len(s)))

\* strings.Join(parts, "/")
RECURSIVE Join(_)
Join(parts) ==
    IF parts = << >> THEN << >>
    ELSE IF Len(parts) = 1 THEN parts[1]
    ELSE parts[1] \o <<"/">> \o Join(Tail(parts))

\* the string of the n-th uuid (two decimal digits)
Digits == <<"0", "1", "2", "3", "4", "5", "6", "7", "8", "9">>

Uuid(n) == <<Digits[((n \div 10) % 10) + 1], Digits[(n % 10) + 1]>>

-----------------------------------------------------------------------------
(* time *)

\* the TTL written in seconds for minutes
TokenTTL_Seconds == 5 * TicksPerSecond

\* 5 * time.Minute
TokenTTL == 5 * 60 * TicksPerSecond

\* the clock readings of the model: the first ticks, and the ticks around the
\* expiry of a token issued at one of them
Instants == (0..MaxEarly) \cup ((TokenTTL - 1)..(TokenTTL + MaxEarly + 1))

\* t.Format(time.RFC3339): the timestamp to the second, fractions dropped
FormatRFC3339(t) == t \div TicksPerSecond

\* the instant an RFC3339 timestamp of whole seconds denotes
ParseRFC3339(s) == s * TicksPerSecond

-----------------------------------------------------------------------------
(* bcrypt *)

NoHash == << >>

\* bcrypt.GenerateFromPassword
GenerateFromPassword(password) == <<"$2a$10$">> \o password

\* bcrypt.CompareHashAndPassword(hash, password) = nil
CompareHashAndPassword(hash, password) == hash = GenerateFromPassword(password)

-----------------------------------------------------------------------------
(* values the requests are drawn from *)

Hostname == <<"sh.huny.dev">>

PathA == <<"/", "a", ".", "s", "h">>
PathB == <<"/", "d", "/", "b", ".", "s", "h">>
PathC == <<"/", "c", ".", "s", "h">>
PathP == <<"/", "p", ".", "s", "h">>
PathF == <<"/", "d", "/", "e", "/", "f", ".", "s", "h">>
PathV == <<"/", "t", "/", "u", "/", "v", ".", "s", "h">>
PathW == <<"/", "t", "/", "w", ".", "s", "h">>
PathMissing == <<"/", "x", ".", "s", "h">>

SecretA == << <<"echo alpha-secret">>, <<"rm -rf /tmp/alpha">> >>
SecretB == << <<"echo beta-secret">> >>
PublicText == << <<"echo public">> >>

NoPassword == << >>
PasswordA == <<"hunter2">>
PasswordB == <<"swordfish">>
WrongPassword == <<"letmein">>

NoMeta == [description |-> << >>, tags |-> << >>]
SomeMeta == [description |-> <<"demo script">>, tags |-> <<"net,disk">>]

Client1 == [ip |-> <<"10.0.0.1:4000">>, ua |-> <<"curl/8.5.0">>]
Client2 == [ip |-> <<"10.0.0.2:5000">>, ua |-> <<"Mozilla/5.0">>]

\* a token value no uuid.New() ever returned
BogusToken == <<"not-a-token">>

-----------------------------------------------------------------------------
(* the database *)

EmptyDB ==
    [scripts |-> {}, folders |-> {}, tokens |-> {}, versions |-> << >>, audit |-> << >>,
     uuids |-> 0]

DB ==
    [scripts |-> scripts, folders |-> folders, tokens |-> tokens, versions |-> versions,
     audit |-> audit, uuids |-> uuids]

\* SELECT * FROM scripts WHERE path = ?  (the rows; at most one, path is UNIQUE)
GetScriptByPath(db, path) == {s \in db.scripts : s.path = path}

\* SELECT * FROM scripts WHERE id = ?
GetScript(db, id) == {s \in db.scripts : s.id = id}

\* SELECT * FROM auth_tokens WHERE token = ?
GetAuthToken(db, token) == {t \in db.tokens : t.token = token}

\* SELECT * FROM folders WHERE path = ?
GetFolderByPath(db, path) == {f \in db.folders : f.path = path}

\* the entry takes the place of the last entry of the log
CreateAuditLog_Overwrites(db, action, id, path, ip, ua) ==
    [db EXCEPT !.audit = (IF @ = << >> THEN @ ELSE SubSeq(@, 1, Len(@) - 1))
                         \o <<[action |-> action, entity_type |-> "script",
                                entity_id |-> id, entity_path |-> path,
                                ip_address |-> ip, user_agent |-> ua]>>]

\* INSERT INTO audit_log; ip_address and user_agent are NULL for admin writes
CreateAuditLog(db, action, id, path, ip, ua) ==
    [db EXCEPT !.audit = Append(@, [action |-> action, entity_type |-> "script",
                                     entity_id |-> id, entity_path |-> path,
                                     ip_address |-> ip, user_agent |-> ua])]

\* INSERT INTO auth_tokens (the caller has checked that the token, the PRIMARY KEY, is new)
CreateAuthToken(db, token, scriptID, expiresAt, createdAt, ip, ua) ==
    [db EXCEPT !.tokens = @ \cup {[token |-> token, script_id |-> scriptID,
                                    expires_at |-> expiresAt, created_at |-> createdAt,
                                    ip_address |-> ip, user_agent |-> ua]}]

\* uuid.New().String(): a value never returned before
NewUuid(db) == Uuid(db.uuids + 1)

\* the database after a uuid.New() value was stored
UuidUsed(db) == [db EXCEPT !.uuids = @ + 1]

\* number of audit rows of the given actions
RECURSIVE CountActions(_, _)
CountActions(log, actions) ==
    IF log = << >> THEN 0
    ELSE (IF Head(log).action \in actions THEN 1 ELSE 0) + CountActions(Tail(log), actions)

-----------------------------------------------------------------------------
(* responses *)

NoRequest == [op |-> "none"]

Response(status, ctype, cache, body) ==
    [status |-> status, ctype |-> ctype, cache |-> cache, body |-> body,
     token |-> << >>, expires_at |-> 0]

NoResponse == Response(0, "", "", << >>)

\* http.Error
Error(msg, status) == Response(status, "text/plain; charset=utf-8", "", <<msg>>)

\* strconv of a small number
Itoa(n) == IF n < 10 THEN <<Digits[n + 1]>> ELSE <<Digits[((n \div 10) % 10) + 1], Digits[(n % 10) + 1]>>

\* the first lines of a preview
PreviewLines == 20

\* the body of GET <path>?preview=1
PreviewBody(script) ==
    LET lines == script.content
        max   == Min(PreviewLines, Len(lines))
    IN  << <<"# ">> \o script.name >>
        \o (IF script.description # << >> THEN << <<"# ">> \o script.description >> ELSE << >>)
        \o (IF script.tags # << >> THEN << <<"# Tags: ">> \o script.tags >> ELSE << >>)
        \o << << >>, <<"# Content:">> >>
        \o SubSeq(lines, 1, max)
        \o (IF Len(lines) > max
            THEN << << >>, <<"... (">> \o Itoa(Len(lines) - max) \o <<" more lines)">> >>
            ELSE << >>)

\* the prompt script: its text depends on the hostname and the path only
servePasswordPrompt(scriptPath) ==
    Response(200, "text/plain; charset=utf-8", "no-store",
             << <<"#!/bin/sh">>,
                <<"# This script is locked and requires authentication">>,
                <<"BASE_URL=\"https://">> \o Hostname \o <<"\"">>,
                <<"SCRIPT_PATH=\"">> \o scriptPath \o <<"\"">>,
                <<"curl -fsSL -X POST \"${BASE_URL}/_auth/unlock\"">>,
                <<"curl -fsSL \"${BASE_URL}${SCRIPT_PATH}?token=${TOKEN}\" | sh">> >>)

-----------------------------------------------------------------------------
(* GET /{path}.sh *)

\* a GET of a script path: query parameters preview and token, the Authorization header
GetRequest(path, preview, queryToken, authorization, client) ==
    [op |-> "GET", path |-> path, preview |-> preview, query_token |-> queryToken,
     authorization |-> authorization, ip |-> client.ip, ua |-> client.ua]

\* the Authorization header is looked at first
PresentedToken_HeaderFirst(r) ==
    IF TrimPrefix(r.authorization, <<"Bearer ">>) = << >>
    THEN r.query_token ELSE TrimPrefix(r.authorization, <<"Bearer ">>)

\* the token a request presents: the query parameter, else the Authorization header
PresentedToken(r) ==
    IF r.query_token = << >> THEN TrimPrefix(r.authorization, <<"Bearer ">>) ELSE r.query_token

\* a fetch is granted on an unexpired row even at the instant of expiry (>= for >)
TokenValid_AtExpiry(db, t, r, script) ==
    \E authToken \in GetAuthToken(db, PresentedToken(r)) :
        authToken.script_id = script.id /\ authToken.expires_at >= t

\* the row's script is not compared with the script fetched
TokenValid_AnyScript(db, t, r, script) ==
    \E authToken \in GetAuthToken(db, PresentedToken(r)) : authToken.expires_at > t

\* the row's expiry is not compared with the clock
TokenValid_NoExpiry(db, t, r, script) ==
    \E authToken \in GetAuthToken(db, PresentedToken(r)) : authToken.script_id = script.id

\* err == nil && authToken.ScriptID == script.ID && authToken.ExpiresAt.After(time.Now())
TokenValid(db, t, r, script) ==
    \E authToken \in GetAuthToken(db, PresentedToken(r)) :
        authToken.script_id = script.id /\ authToken.expires_at > t

\* an expired token is told apart from an unknown one
GatedFetch_TellsExpired(db, t, r, path, script) ==
    IF PresentedToken(r) # << >> /\ TokenValid(db, t, r, script)
    THEN Response(200, "text/plain; charset=utf-8", "no-store", script.content)
    ELSE IF \E authToken \in GetAuthToken(db, PresentedToken(r)) : authToken.expires_at <= t
    THEN Error(<<"Token expired">>, 401)
    ELSE servePasswordPrompt(path)

\* the locked branch of HandleScript
GatedFetch(db, t, r, path, script) ==
    IF PresentedToken(r) # << >> /\ TokenValid(db, t, r, script)
    THEN Response(200, "text/plain; charset=utf-8", "no-store", script.content)
    ELSE servePasswordPrompt(path)

\* HandleScript: the response to request r at time t
HandleScript(db, t, r) ==
    LET path  == IF HasPrefix(r.path, <<"/">>) THEN r.path ELSE <<"/">> \o r.path
        found == GetScriptByPath(db, path)
    IN  IF found = {} THEN Error(<<"Script not found">>, 404)
        ELSE LET script == CHOOSE s \in found : TRUE
             IN  IF r.preview = <<"1">>
                 THEN Response(200, "text/plain; charset=utf-8", "", PreviewBody(script))
                 ELSE IF script.locked # 0
                 THEN GatedFetch(db, t, r, path, script)
                 ELSE Response(200, "text/plain; charset=utf-8", "max-age=60", script.content)

-----------------------------------------------------------------------------
(* content negotiation *)

Alphabet == <<"a", "b", "c", "d", "e", "f", "g", "h", "i", "j", "k", "l", "m",
              "n", "o", "p", "q", "r", "s", "t", "u", "v", "w", "x", "y", "z">>
Capitals == <<"A", "B", "C", "D", "E", "F", "G", "H", "I", "J", "K", "L", "M",
              "N", "O", "P", "Q", "R", "S", "T", "U", "V", "W", "X", "Y", "Z">>

\* strings.ToLower, character by character
ToLower(s) ==
    [i \in 1..Len(s) |->
        IF \E k \in DOMAIN Capitals : Capitals[k] = s[i]
        THEN Alphabet[CHOOSE k \in DOMAIN Capitals : Capitals[k] = s[i]]
        ELSE s[i]]

\* strings.ToUpper, character by character
ToUpper(s) ==
    [i \in 1..Len(s) |->
        IF \E k \in DOMAIN Alphabet : Alphabet[k] = s[i]
        THEN Capitals[CHOOSE k \in DOMAIN Alphabet : Alphabet[k] = s[i]]
        ELSE s[i]]

\* strings.Contains
Contains(s, sub) ==
    \E i \in 0..(Len(s) - Len(sub)) : SubSeq(s, i + 1, i + Len(sub)) = sub

cliPatterns ==
    <<<<"c", "u", "r", "l">>,
      <<"w", "g", "e", "t">>,
      <<"h", "t", "t", "p", "i", "e">>,
      <<"f", "e", "t", "c", "h">>,
      <<"l", "i", "b", "f", "e", "t", "c", "h">>,
      <<"a", "r", "i", "a", "2">>,
      <<"p", "y", "t", "h", "o", "n", "-", "r", "e", "q", "u", "e", "s", "t", "s">>,
      <<"g", "o", "-", "h", "t", "t", "p", "-", "c", "l", "i", "e", "n", "t">>>>

TextHTML == <<"t", "e", "x", "t", "/", "h", "t", "m", "l">>

\* a GET of a page: the path, the User-Agent and the Accept header
PageRequest(path, ua, accept) ==
    [op |-> "GET", path |-> path, preview |-> << >>, query_token |-> << >>,
     authorization |-> << >>, ip |-> << >>, ua |-> ua, accept |-> accept]

\* the Accept header is looked at before the signatures
isCLI_AcceptFirst(r) ==
    LET ua == ToLower(r.ua)
    IN  IF Contains(r.accept, TextHTML) THEN FALSE
        ELSE IF \E k \in DOMAIN cliPatterns : Contains(ua, cliPatterns[k]) THEN TRUE
        ELSE ua = << >>

\* no rule for the requester without a User-Agent
isCLI_SignaturesOnly(r) ==
    LET ua == ToLower(r.ua)
    IN  \E k \in DOMAIN cliPatterns : Contains(ua, cliPatterns[k])

\* the empty User-Agent is looked at before the Accept header
isCLI_EmptyFirst(r) ==
    LET ua == ToLower(r.ua)
    IN  IF \E k \in DOMAIN cliPatterns : Contains(ua, cliPatterns[k]) THEN TRUE
        ELSE IF ua = << >> THEN TRUE
        ELSE FALSE

\* isCLI
isCLI(r) ==
    LET ua == ToLower(r.ua)
    IN  IF \E k \in DOMAIN cliPatterns : Contains(ua, cliPatterns[k]) THEN TRUE
        ELSE IF Contains(r.accept, TextHTML) THEN FALSE
        ELSE IF ua = << >> /\ ~Contains(r.accept, TextHTML) THEN TRUE
        ELSE FALSE

\* serveHTML: the page of the embedded template
serveHTML == Response(200, "text/html; charset=utf-8", "", << <<"templates/index.html">> >>)

\* the two lines a command-line client gets at the root
RootLines ==
    Response(200, "text/plain; charset=utf-8", "",
             << <<"curl -fsSL https://">> \o Hostname \o <<"/help.sh | sh">>,
                <<"curl -fsSL https://">> \o Hostname \o <<"/search.sh | sh">> >>)

\* http.NotFound
NotFound == Error(<<"404 page not found">>, 404)

PathHelp == <<"/", "h", "e", "l", "p", ".", "s", "h">>
PathSearch == <<"/", "s", "e", "a", "r", "c", "h", ".", "s", "h">>

\* HandleRoot
HandleRoot(r) == IF isCLI(r) THEN RootLines ELSE serveHTML

\* HandleHelp: the built-in usage text, whatever the store holds
HandleHelp ==
    Response(200, "text/plain; charset=utf-8", "max-age=300",
             << <<"#!/bin/sh">>,
                <<"# sh.huny.dev - Script Repository">>,
                <<"curl -fsSL https://">> \o Hostname \o <<"/help.sh | sh">> >>)

\* HandleSearch: the built-in browser script, whatever the store holds
HandleSearch ==
    Response(200, "text/plain; charset=utf-8", "no-cache",
             << <<"#!/bin/sh">>,
                <<"# Interactive script browser for sh.huny.dev">>,
                <<"BASE_URL=\"https://">> \o Hostname \o <<"\"">> >>)

\* routeHandler
routeHandler(db, t, r) ==
    IF HasSuffix(r.path, <<".", "s", "h">>) THEN HandleScript(db, t, r)
    ELSE IF ~isCLI(r) THEN serveHTML
    ELSE NotFound

\* the GET patterns of Serve's mux: the most specific pattern wins
ServeGet(db, t, r) ==
    IF r.path = PathHelp THEN HandleHelp
    ELSE IF r.path = PathSearch THEN HandleSearch
    ELSE IF r.path = <<"/">> THEN HandleRoot(r)
    ELSE routeHandler(db, t, r)

\* User-Agent headers: a signature or another word, in lower, upper and mixed case, alone
\* or inside a longer header
Capitalize(s) == IF s = << >> THEN s ELSE ToUpper(SubSeq(s, 1, 1)) \o SubSeq(s, 2, Len(s))

OtherWords == {<< >>, <<"s", "a", "f", "a", "r", "i">>, <<"c", "u", "r">>, <<"p", "y", "t", "h", "o", "n">>, <<"w", "-", "g", "e", "t">>}

UserAgents ==
    LET words == {cliPatterns[k] : k \in DOMAIN cliPatterns} \cup OtherWords
        cased == words \cup {ToUpper(w) : w \in words} \cup {Capitalize(w) : w \in words}
    IN  {pre \o w \o post : pre \in {<< >>, <<"M", "o", "z", "/", "5", " ">>}, w \in cased, post \in {<< >>, <<"/", "8", ".", "5">>}}

\* Accept headers
Accepts ==
    {<< >>, <<"*", "/", "*">>, <<"t", "e", "x", "t", "/", "h", "t", "m", "l">>,
     <<"a", "p", "p", "l", "i", "c", "a", "t", "i", "o", "n", "/", "x", "h", "t", "m", "l", "+", "x", "m", "l", ",", "t", "e", "x", "t", "/", "h", "t", "m", "l", ";", "q", "=", "0", ".", "9">>,
     <<"a", "p", "p", "l", "i", "c", "a", "t", "i", "o", "n", "/", "j", "s", "o", "n">>, <<"T", "E", "X", "T", "/", "H", "T", "M", "L">>, <<"t", "e", "x", "t", "/", "h", "t", "m">>}

\* paths of pages
PathRoot == <<"/">>
PathDocs == <<"/", "d", "o", "c", "s">>
PathDeep == <<"/", "t", "o", "o", "l", "s", "/", "n", "e", "t">>

-----------------------------------------------------------------------------
(* POST /_auth/unlock *)

UnlockRequest(path, password, client) ==
    [op |-> "UNLOCK", path |-> path, password |-> password, ip |-> client.ip, ua |-> client.ua]

\* a new unlock also pushes the expiry of the script's earlier tokens forward
IssueToken_Renews(db, t, r, script) ==
    LET token     == NewUuid(db)
        expiresAt == t + TokenTTL
        renewed   == {IF row.script_id = script.id THEN [row EXCEPT !.expires_at = expiresAt]
                      ELSE row : row \in db.tokens}
        db1 == UuidUsed(CreateAuthToken([db EXCEPT !.tokens = renewed], token, script.id,
                                        expiresAt, t, r.ip, r.ua))
        db2 == CreateAuditLog(db1, "UNLOCK_SUCCESS", script.id, r.path, r.ip, r.ua)
    IN  [db   |-> db2,
         resp |-> [Response(200, "application/json", "", << >>)
                     EXCEPT !.token = token, !.expires_at = FormatRFC3339(expiresAt)]]

\* the token and its audit entry, written after the password was verified
IssueToken(db, t, r, script) ==
    LET token     == NewUuid(db)
        expiresAt == t + TokenTTL
    IN  IF GetAuthToken(db, token) # {}
        THEN [db |-> db, resp |-> Error(<<"Failed to create token">>, 500)]
        ELSE LET db1 == UuidUsed(CreateAuthToken(db, token, script.id, expiresAt, t,
                                                 r.ip, r.ua))
                 db2 == CreateAuditLog(db1, "UNLOCK_SUCCESS", script.id, r.path, r.ip, r.ua)
             IN  [db   |-> db2,
                  resp |-> [Response(200, "application/json", "", << >>)
                              EXCEPT !.token = token,
                                     !.expires_at = FormatRFC3339(expiresAt)]]

\* a failed attempt is answered but not logged
HandleUnlock_FailureNotLogged(db, t, r) ==
    LET found == GetScriptByPath(db, r.path)
    IN  IF found = {} THEN [db |-> db, resp |-> Error(<<"Script not found">>, 404)]
        ELSE LET script == CHOOSE s \in found : TRUE
             IN  IF script.locked = 0
                 THEN [db |-> db, resp |-> Error(<<"Script is not locked">>, 400)]
                 ELSE IF script.password_hash = NoHash
                 THEN [db |-> db, resp |-> Error(<<"Script has no password set">>, 500)]
                 ELSE IF ~CompareHashAndPassword(script.password_hash, r.password)
                 THEN [db |-> db, resp |-> Error(<<"Invalid password">>, 401)]
                 ELSE IssueToken(db, t, r, script)

\* the missing hash is not checked before the comparison
HandleUnlock_NoHashCheck(db, t, r) ==
    LET found == GetScriptByPath(db, r.path)
    IN  IF found = {} THEN [db |-> db, resp |-> Error(<<"Script not found">>, 404)]
        ELSE LET script == CHOOSE s \in found : TRUE
             IN  IF script.locked = 0
                 THEN [db |-> db, resp |-> Error(<<"Script is not locked">>, 400)]
                 ELSE IF ~CompareHashAndPassword(script.password_hash, r.password)
                 THEN [db   |-> CreateAuditLog(db, "UNLOCK_FAILED", script.id, r.path,
                                               r.ip, r.ua),
                       resp |-> Error(<<"Invalid password">>, 401)]
                 ELSE IssueToken(db, t, r, script)

\* the password is not compared with the hash
HandleUnlock_AnyPassword(db, t, r) ==
    LET found == GetScriptByPath(db, r.path)
    IN  IF found = {} THEN [db |-> db, resp |-> Error(<<"Script not found">>, 404)]
        ELSE LET script == CHOOSE s \in found : TRUE
             IN  IF script.locked = 0
                 THEN [db |-> db, resp |-> Error(<<"Script is not locked">>, 400)]
                 ELSE IF script.password_hash = NoHash
                 THEN [db |-> db, resp |-> Error(<<"Script has no password set">>, 500)]
                 ELSE IssueToken(db, t, r, script)

\* HandleUnlock: the database and the response after request r at time t
HandleUnlock(db, t, r) ==
    LET found == GetScriptByPath(db, r.path)
    IN  IF found = {} THEN [db |-> db, resp |-> Error(<<"Script not found">>, 404)]
        ELSE LET script == CHOOSE s \in found : TRUE
             IN  IF script.locked = 0
                 THEN [db |-> db, resp |-> Error(<<"Script is not locked">>, 400)]
                 ELSE IF script.password_hash = NoHash
                 THEN [db |-> db, resp |-> Error(<<"Script has no password set">>, 500)]
                 ELSE IF ~CompareHashAndPassword(script.password_hash, r.password)
                 THEN [db   |-> CreateAuditLog(db, "UNLOCK_FAILED", script.id, r.path,
                                               r.ip, r.ua),
                       resp |-> Error(<<"Invalid password">>, 401)]
                 ELSE IssueToken(db, t, r, script)

-----------------------------------------------------------------------------
(* the admin API: scripts *)

Lower == {"a", "b", "c", "d", "e", "f", "g", "h", "i", "j", "k", "l", "m",
          "n", "o", "p", "q", "r", "s", "t", "u", "v", "w", "x", "y", "z"}
Upper == {"A", "B", "C", "D", "E", "F", "G", "H", "I", "J", "K", "L", "M",
          "N", "O", "P", "Q", "R", "S", "T", "U", "V", "W", "X", "Y", "Z"}
Digit == {"0", "1", "2", "3", "4", "5", "6", "7", "8", "9"}

\* the character class [a-zA-Z0-9_/.-]
PathChars == Lower \cup Upper \cup Digit \cup {"_", "/", ".", "-"}

\* a "/" is accepted at the head of the path only
validatePath_Flat(path) ==
    IF ~HasPrefix(path, <<"/">>) THEN <<"path must start with /">>
    ELSE IF ~HasSuffix(path, <<".", "s", "h">>) THEN <<"path must end with .sh">>
    ELSE IF ~(Len(path) >= 1 /\ \A i \in 2..Len(path) : path[i] \in PathChars \ {"/"})
    THEN <<"path contains invalid characters">>
    ELSE << >>

\* the "/" is prepended when it is missing
validatePath_Normalizes(path) ==
    LET p == IF HasPrefix(path, <<"/">>) THEN path ELSE <<"/">> \o path
    IN  IF ~HasSuffix(p, <<".", "s", "h">>) THEN <<"path must end with .sh">>
        ELSE IF ~(\A i \in 1..Len(p) : p[i] \in PathChars)
        THEN <<"path contains invalid characters">>
        ELSE << >>

\* validatePath: the error, << >> when the path is valid
validatePath(path) ==
    IF ~HasPrefix(path, <<"/">>) THEN <<"path must start with /">>
    ELSE IF ~HasSuffix(path, <<".", "s", "h">>) THEN <<"path must end with .sh">>
    ELSE IF ~(Len(path) >= 1 /\ \A i \in 1..Len(path) : path[i] \in PathChars)
    THEN <<"path contains invalid characters">>
    ELSE << >>

\* INSERT INTO folders on a table without the UNIQUE constraint on path
CreateFolder_NoUnique(db, id, path, name) ==
    IF \E f \in db.folders : f.id = id THEN db
    ELSE [db EXCEPT !.folders = @ \cup {[id |-> id, path |-> path, name |-> name]}]

\* INSERT INTO folders; refused when the id or the path is taken (PRIMARY KEY, UNIQUE)
CreateFolder(db, id, path, name) ==
    IF \E f \in db.folders : f.id = id \/ f.path = path THEN db
    ELSE [db EXCEPT !.folders = @ \cup {[id |-> id, path |-> path, name |-> name]}]

\* the loop of ensureFolders from index i on
RECURSIVE ensureFrom(_, _, _)
ensureFrom(db, parts, i) ==
    IF i >= Len(parts) THEN db
    ELSE LET folderPath == <<"/">> \o Join(SubSeq(parts, 1, i))
             folderName == parts[i]
         IN  IF GetFolderByPath(db, folderPath) = {}
             THEN ensureFrom(UuidUsed(CreateFolder(db, NewUuid(db), folderPath, folderName)),
                             parts, i + 1)
             ELSE ensureFrom(db, parts, i + 1)

\* the walk goes one segment further and writes a folder at the script's own path
ensureFolders_WithLeaf(db, scriptPath) ==
    LET parts == Split(TrimPrefix(scriptPath, <<"/">>))
    IN  IF Len(parts) <= 1 THEN db ELSE ensureFrom(db, parts \o << << >> >>, 1)

\* ensureFolders: a folder row for every parent of scriptPath that has none
ensureFolders(db, scriptPath) ==
    LET parts == Split(TrimPrefix(scriptPath, <<"/">>))
    IN  IF Len(parts) <= 1 THEN db ELSE ensureFrom(db, parts, 1)

\* INSERT INTO script_versions
CreateVersion(db, scriptID, content, version) ==
    [db EXCEPT !.versions = Append(@, [script_id |-> scriptID, content |-> content,
                                        version |-> version])]

\* SELECT * FROM script_versions WHERE script_id = ? ORDER BY version DESC: its first version
LatestVersion(db, scriptID) ==
    LET vs == {db.versions[i].version : i \in {j \in DOMAIN db.versions :
                                                 db.versions[j].script_id = scriptID}}
    IN  IF vs = {} THEN 0 ELSE CHOOSE v \in vs : \A w \in vs : w <= v

CreateScriptRequest(path, content, meta, locked, password) ==
    [op |-> "CREATE", path |-> path, content |-> content, description |-> meta.description,
     tags |-> meta.tags, locked |-> locked, password |-> password]

UpdateScriptRequest(id, path, content, meta, locked, password) ==
    [op |-> "UPDATE", id |-> id, path |-> path, content |-> content,
     description |-> meta.description, tags |-> meta.tags, locked |-> locked,
     password |-> password]

DeleteScriptRequest(id) == [op |-> "DELETE", id |-> id]

\* the row a create or update request writes
ScriptRow(id, r, passwordHash) ==
    [id |-> id, path |-> r.path, name |-> extractName(r.path), content |-> r.content,
     description |-> r.description, tags |-> r.tags,
     locked |-> IF r.locked THEN 1 ELSE 0, password_hash |-> passwordHash]

\* INSERT INTO scripts without the UNIQUE constraint on path
InsertScript_NoUnique(db1, r) ==
    LET passwordHash == IF r.locked /\ r.password # << >>
                        THEN GenerateFromPassword(r.password) ELSE NoHash
        id == NewUuid(db1)
        db2 == UuidUsed([db1 EXCEPT !.scripts = @ \cup {ScriptRow(id, r, passwordHash)}])
        db3 == CreateVersion(db2, id, r.content, 1)
        db4 == CreateAuditLog(db3, "CREATE", id, r.path, << >>, << >>)
    IN  [db |-> db4, resp |-> Response(201, "application/json", "", << >>)]

\* APICreateScript after ensureFolders: the script row, its first version, the audit row
InsertScript(db1, r) ==
    LET passwordHash == IF r.locked /\ r.password # << >>
                        THEN GenerateFromPassword(r.password) ELSE NoHash
        id == NewUuid(db1)
    IN  IF GetScriptByPath(db1, r.path) # {}
        THEN [db |-> db1, resp |-> Error(<<"Script with this path already exists">>, 409)]
        ELSE LET db2 == UuidUsed([db1 EXCEPT !.scripts =
                                     @ \cup {ScriptRow(id, r, passwordHash)}])
                 db3 == CreateVersion(db2, id, r.content, 1)
                 db4 == CreateAuditLog(db3, "CREATE", id, r.path, << >>, << >>)
             IN  [db |-> db4, resp |-> Response(201, "application/json", "", << >>)]

\* APICreateScript.  The folders are written before the script row is inserted.
APICreateScript(db, r) ==
    IF validatePath(r.path) # << >>
    THEN [db |-> db, resp |-> Error(validatePath(r.path), 400)]
    ELSE InsertScript(ensureFolders(db, r.path), r)

\* an update to unlocked keeps the stored hash
APIUpdateScript_KeepsHash(db, r) ==
    IF validatePath(r.path) # << >>
    THEN [db |-> db, resp |-> Error(validatePath(r.path), 400)]
    ELSE IF GetScript(db, r.id) = {}
    THEN [db |-> db, resp |-> Error(<<"Script not found">>, 404)]
    ELSE LET existing == CHOOSE s \in GetScript(db, r.id) : TRUE
             passwordHash == IF r.locked /\ r.password # << >>
                             THEN GenerateFromPassword(r.password)
                             ELSE existing.password_hash
         IN  IF \E s \in db.scripts : s.id # r.id /\ s.path = r.path
             THEN [db |-> db, resp |-> Error(<<"Failed to update script">>, 500)]
             ELSE LET db1 == [db EXCEPT !.scripts = (@ \ {existing})
                                           \cup {ScriptRow(r.id, r, passwordHash)}]
                      db2 == IF existing.content # r.content
                             THEN CreateVersion(db1, r.id, r.content,
                                                LatestVersion(db1, r.id) + 1)
                             ELSE db1
                      db3 == CreateAuditLog(db2, "UPDATE", r.id, r.path, << >>, << >>)
                  IN  [db |-> db3, resp |-> Response(200, "application/json", "", << >>)]

\* a move keeps the name the script had
APIUpdateScript_KeepsName(db, r) ==
    IF validatePath(r.path) # << >>
    THEN [db |-> db, resp |-> Error(validatePath(r.path), 400)]
    ELSE IF GetScript(db, r.id) = {}
    THEN [db |-> db, resp |-> Error(<<"Script not found">>, 404)]
    ELSE LET existing == CHOOSE s \in GetScript(db, r.id) : TRUE
             passwordHash == IF r.locked
                             THEN IF r.password # << >>
                                  THEN GenerateFromPassword(r.password)
                                  ELSE existing.password_hash
                             ELSE NoHash
             row == [ScriptRow(r.id, r, passwordHash) EXCEPT !.name = existing.name]
         IN  IF \E s \in db.scripts : s.id # r.id /\ s.path = r.path
             THEN [db |-> db, resp |-> Error(<<"Failed to update script">>, 500)]
             ELSE LET db1 == [db EXCEPT !.scripts = (@ \ {existing}) \cup {row}]
                      db2 == IF existing.content # r.content
                             THEN CreateVersion(db1, r.id, r.content,
                                                LatestVersion(db1, r.id) + 1)
                             ELSE db1
                      db3 == CreateAuditLog(db2, "UPDATE", r.id, r.path, << >>, << >>)
                  IN  [db |-> db3, resp |-> Response(200, "application/json", "", << >>)]

\* APIUpdateScript
APIUpdateScript(db, r) ==
    IF validatePath(r.path) # << >>
    THEN [db |-> db, resp |-> Error(validatePath(r.path), 400)]
    ELSE IF GetScript(db, r.id) = {}
    THEN [db |-> db, resp |-> Error(<<"Script not found">>, 404)]
    ELSE LET existing == CHOOSE s \in GetScript(db, r.id) : TRUE
             passwordHash == IF r.locked
                             THEN IF r.password # << >>
                                  THEN GenerateFromPassword(r.password)
                                  ELSE existing.password_hash
                             ELSE NoHash
         IN  IF \E s \in db.scripts : s.id # r.id /\ s.path = r.path
             THEN [db |-> db, resp |-> Error(<<"Failed to update script">>, 500)]
             ELSE LET db1 == [db EXCEPT !.scripts = (@ \ {existing})
                                           \cup {ScriptRow(r.id, r, passwordHash)}]
                      db2 == IF existing.content # r.content
                             THEN CreateVersion(db1, r.id, r.content,
                                                LatestVersion(db1, r.id) + 1)
                             ELSE db1
                      db3 == CreateAuditLog(db2, "UPDATE", r.id, r.path, << >>, << >>)
                  IN  [db |-> db3, resp |-> Response(200, "application/json", "", << >>)]

\* UPDATE scripts SET path = ?, ... WHERE id = ?: the rows of that id become row, and the
\* statement fails on the UNIQUE constraint when another row holds the path
UpdateScript(db, row) ==
    IF GetScript(db, row.id) # {} /\ \E s \in db.scripts : s.id # row.id /\ s.path = row.path
    THEN [db |-> db, ok |-> FALSE]
    ELSE [db |-> [db EXCEPT !.scripts = {IF s.id = row.id THEN row ELSE s : s \in @}],
          ok |-> TRUE]

\* the rows of script_versions that do not belong to script id, in order
RECURSIVE VersionsOfOthers(_, _)
VersionsOfOthers(rows, id) ==
    IF rows = << >> THEN << >>
    ELSE (IF Head(rows).script_id # id THEN <<Head(rows)>> ELSE << >>)
         \o VersionsOfOthers(Tail(rows), id)

\* DELETE FROM scripts WHERE id = ?, with ON DELETE CASCADE when foreign keys are enforced
DeleteScript(db, id, cascade) ==
    [db EXCEPT !.scripts  = {s \in @ : s.id # id},
               !.tokens   = IF cascade THEN {t \in @ : t.script_id # id} ELSE @,
               !.versions = IF cascade THEN VersionsOfOthers(@, id) ELSE @]

\* APIDeleteScript
APIDeleteScript(db, r, cascade) ==
    IF GetScript(db, r.id) = {}
    THEN [db |-> db, resp |-> Error(<<"Script not found">>, 404)]
    ELSE LET script == CHOOSE s \in GetScript(db, r.id) : TRUE
             db1 == DeleteScript(db, r.id, cascade)
             db2 == CreateAuditLog(db1, "DELETE", r.id, script.path, << >>, << >>)
         IN  [db |-> db2, resp |-> Response(204, "", "", << >>)]

-----------------------------------------------------------------------------
(* the admin API: folders *)

\* SELECT * FROM folders WHERE id = ?
GetFolder(db, id) == {f \in db.folders : f.id = id}

\* s LIKE pattern: "%" stands for any string, "_" for any character, letters match in
\* either case
RECURSIVE Like(_, _)
Like(s, pattern) ==
    IF pattern = << >> THEN s = << >>
    ELSE IF Head(pattern) = "%"
    THEN Like(s, Tail(pattern)) \/ (s # << >> /\ Like(Tail(s), pattern))
    ELSE IF Head(pattern) = "_"
    THEN s # << >> /\ Like(Tail(s), Tail(pattern))
    ELSE /\ s # << >>
         /\ ToLower(<<Head(s)>>) = ToLower(<<Head(pattern)>>)
         /\ Like(Tail(s), Tail(pattern))

\* the scripts below the folder go with it
DeleteFolderByPath_WithScripts(db, path) ==
    [db EXCEPT !.folders = {f \in @ : ~(f.path = path \/ Like(f.path, path \o <<"/", "%">>))},
               !.scripts = {s \in @ : ~Like(s.path, path \o <<"/", "%">>)}]

\* DELETE FROM folders WHERE path = ? OR path LIKE ? || '/%'
DeleteFolderByPath(db, path) ==
    [db EXCEPT !.folders = {f \in @ : ~(f.path = path \/ Like(f.path, path \o <<"/", "%">>))}]

CreateFolderRequest(path) == [op |-> "MKDIR", path |-> path]

DeleteFolderRequest(id) == [op |-> "RMDIR", id |-> id]

\* APICreateFolder
APICreateFolder(db, r) ==
    IF ~HasPrefix(r.path, <<"/">>)
    THEN [db |-> db, resp |-> Error(<<"Path must start with /">>, 400)]
    ELSE LET db1 == ensureFolders(db, r.path \o <<"/", "d", "u", "m", "m", "y", ".", "s", "h">>)
         IN  IF GetFolderByPath(db1, r.path) = {}
             THEN [db |-> db1, resp |-> Error(<<"Failed to create folder">>, 500)]
             ELSE LET folder == CHOOSE f \in GetFolderByPath(db1, r.path) : TRUE
                  IN  [db |-> db1,
                       resp |-> Response(201, "application/json", "",
                                         <<folder.id, folder.path, folder.name>>)]

\* APIDeleteFolder
APIDeleteFolder(db, r) ==
    IF GetFolder(db, r.id) = {}
    THEN [db |-> db, resp |-> Error(<<"Folder not found">>, 404)]
    ELSE LET folder == CHOOSE f \in GetFolder(db, r.id) : TRUE
         IN  [db |-> DeleteFolderByPath(db, folder.path), resp |-> Response(204, "", "", << >>)]

-----------------------------------------------------------------------------
(* the catalog and the tree *)

\* the byte of a character
Ascii(c) ==
    IF c \in Lower THEN 96 + (CHOOSE k \in DOMAIN Alphabet : Alphabet[k] = c)
    ELSE IF c \in Upper THEN 64 + (CHOOSE k \in DOMAIN Capitals : Capitals[k] = c)
    ELSE IF c \in Digit THEN 47 + (CHOOSE k \in DOMAIN Digits : Digits[k] = c)
    ELSE IF c = " " THEN 32
    ELSE IF c = "-" THEN 45
    ELSE IF c = "." THEN 46
    ELSE IF c = "/" THEN 47
    ELSE IF c = "_" THEN 95
    ELSE 126

\* s sorts before t in the BINARY collation of a TEXT column (memcmp, the shorter first)
LessBytes(s, t) ==
    \E k \in 1..(Min(Len(s), Len(t)) + 1) :
        /\ \A j \in 1..(k - 1) : s[j] = t[j]
        /\ k <= Len(t)
        /\ (k <= Len(s) => Ascii(s[k]) < Ascii(t[k]))

\* the rows in the order of ORDER BY path
RECURSIVE OrderByPath(_)
OrderByPath(rows) ==
    IF rows = {} THEN << >>
    ELSE LET first == CHOOSE r \in rows : \A o \in rows : ~LessBytes(o.path, r.path)
         IN  <<first>> \o OrderByPath(rows \ {first})

\* the listing ordered without regard to the case of the letters (COLLATE NOCASE)
ListScripts_NoCase(db) ==
    CHOOSE list \in [1..Cardinality(db.scripts) -> db.scripts] :
        \A i \in DOMAIN list, j \in DOMAIN list :
            i < j => /\ list[i] # list[j]
                     /\ ~LessBytes(ToLower(list[j].path), ToLower(list[i].path))

\* SELECT * FROM scripts ORDER BY path
ListScripts(db) == OrderByPath(db.scripts)

\* the listing in descending order
ListFolders_Descending(db) ==
    LET rows == OrderByPath(db.folders)
    IN  [i \in 1..Len(rows) |-> rows[Len(rows) + 1 - i]]

\* SELECT * FROM folders ORDER BY path
ListFolders(db) == OrderByPath(db.folders)

CatalogRequest == [op |-> "CATALOG"]

\* the catalog with the content of each script
HandleCatalog_WithContent(db) ==
    LET list == ListScripts(db)
    IN  Response(200, "application/json", "max-age=60",
                 [i \in 1..Len(list) |->
                     [path |-> list[i].path, name |-> list[i].name,
                      description |-> list[i].description, tags |-> list[i].tags,
                      locked |-> list[i].locked # 0, content |-> list[i].content]])

\* HandleCatalog: an entry per listed script
HandleCatalog(db) ==
    LET list == ListScripts(db)
    IN  Response(200, "application/json", "max-age=60",
                 [i \in 1..Len(list) |->
                     [path |-> list[i].path, name |-> list[i].name,
                      description |-> list[i].description, tags |-> list[i].tags,
                      locked |-> list[i].locked # 0]])

\* getParentPath
getParentPath(path) ==
    IF path = <<"/">> THEN <<"/">>
    ELSE LET parts == Split(TrimPrefix(path, <<"/">>))
         IN  IF Len(parts) <= 1 THEN <<"/">>
             ELSE <<"/">> \o Join(SubSeq(parts, 1, Len(parts) - 1))

\* the synthetic root of APIGetTree
RootNode ==
    [id |-> <<"root">>, name |-> <<"/">>, path |-> <<"/">>, type |-> "folder",
     locked |-> FALSE, children |-> {}]

\* nodeMap of APIGetTree after its two loops: the root, then a node per folder,
\* then a node per script, a later node at a path replacing the earlier one
nodeMap(db) ==
    [p \in {<<"/">>} \cup {f.path : f \in db.folders} \cup {s.path : s \in db.scripts} |->
        IF GetScriptByPath(db, p) # {}
        THEN LET sc == CHOOSE s \in GetScriptByPath(db, p) : TRUE
             IN  [id |-> sc.id, name |-> sc.name, path |-> sc.path, type |-> "script",
                  locked |-> sc.locked # 0, children |-> {}]
        ELSE IF GetFolderByPath(db, p) # {}
        THEN LET f == CHOOSE g \in GetFolderByPath(db, p) : TRUE
             IN  [id |-> f.id, name |-> f.name, path |-> f.path, type |-> "folder",
                  locked |-> FALSE, children |-> {}]
        ELSE RootNode]

\* the node at key with the nodes appended to it; the order of the children is that
\* of the iteration over the map and is left out
RECURSIVE Subtree(_, _)
Subtree(nodes, key) ==
    [nodes[key] EXCEPT !.children =
        {Subtree(nodes, p) : p \in {q \in DOMAIN nodes \ {<<"/">>} : getParentPath(q) = key}}]

TreeRequest == [op |-> "TREE"]

\* APIGetTree: a node goes under the node at its parent path when the map has one,
\* and under the root otherwise
APIGetTree(db) ==
    LET nodes   == nodeMap(db)
        orphans == {q \in DOMAIN nodes \ {<<"/">>} : getParentPath(q) \notin DOMAIN nodes}
        top     == IF nodes[<<"/">>] = RootNode
                   THEN {q \in DOMAIN nodes \ {<<"/">>} : getParentPath(q) = <<"/">>}
                   ELSE {}
    IN  Response(200, "application/json", "",
                 [RootNode EXCEPT !.children = {Subtree(nodes, p) : p \in orphans \cup top}])

\* null, and the id of an object that has none
Null == << >>

\* path.split('/').filter(Boolean)
Parts(path) == SelectSeq(Split(path), LAMBDA part : part # << >>)

\* parts.forEach of renderTree from index i on: the node of each prefix of parts is
\* made when its parent has no child of that name; last is the id given to the node
\* of the whole of parts.  A node is keyed by its path, the chain of child names that
\* leads to it.
RECURSIVE descend(_, _, _, _)
descend(children, parts, i, last) ==
    IF i > Len(parts) THEN children
    ELSE LET path == <<"/">> \o Join(SubSeq(parts, 1, i))
         IN  descend(IF path \in DOMAIN children THEN children
                     ELSE children @@ (path :> [id |-> IF i = Len(parts) THEN last ELSE Null,
                                                name |-> parts[i], path |-> path]),
                     parts, i + 1, last)

\* folders.forEach of renderTree from the k-th folder on
RECURSIVE addFolders(_, _, _)
addFolders(children, list, k) ==
    IF k > Len(list) THEN children
    ELSE addFolders(descend(children, Parts(list[k].path), 1, list[k].id), list, k + 1)

\* scripts.forEach of renderTree from the k-th script on: the nodes above the script
\* are made without an id, and the script is pushed to the scripts of the last
RECURSIVE addScripts(_, _, _)
addScripts(tree, list, k) ==
    IF k > Len(list) THEN tree
    ELSE LET parts  == Parts(list[k].path)
             folder == SubSeq(parts, 1, Len(parts) - 1)
         IN  addScripts([children |-> descend(tree.children, folder, 1, Null),
                         scripts |-> tree.scripts \cup
                                     {[parent |-> <<"/">> \o Join(folder), id |-> list[k].id,
                                       name |-> list[k].name, path |-> list[k].path,
                                       locked |-> list[k].locked # 0]}],
                        list, k + 1)

\* renderTree of the admin page: the tree built from the listings of loadData
renderTree(listedScripts, listedFolders) ==
    addScripts([children |-> addFolders(<< >>, listedFolders, 1), scripts |-> {}],
               listedScripts, 1)

LoadRequest == [op |-> "LOAD"]

\* loadData of the admin page: GET /api/scripts, GET /api/folders, renderTree
loadData(db) == Response(200, "text/html", "", renderTree(ListScripts(db), ListFolders(db)))

-----------------------------------------------------------------------------
(* storage failures: the statements named in faults return an error *)

\* a request served while the statements of faults fail
WithFaults(r, faults) == r @@ [faults |-> faults]

\* what the reads return: a read that fails gives its caller an error and no row, and
\* the handlers below test the error only (err != nil), as they do for sql.ErrNoRows
Seen(db, faults) ==
    [db EXCEPT !.scripts = IF {"GetScriptByPath", "ListScripts"} \cap faults # {} THEN {} ELSE @,
               !.tokens  = IF "GetAuthToken" \in faults THEN {} ELSE @,
               !.folders = IF {"GetFolderByPath", "ListFolders"} \cap faults # {} THEN {} ELSE @]

\* HandleScript: the errors of q.GetScriptByPath and q.GetAuthToken
HandleScriptUnder(db, t, r, faults) == HandleScript(Seen(db, faults), t, r)

\* APIGetTree: the errors of q.ListScripts and q.ListFolders are discarded
APIGetTreeUnder(db, faults) == APIGetTree(Seen(db, faults))

\* the token is taken back when its audit entry cannot be written
IssueTokenUnder_RollsBack(db, t, r, script, faults) ==
    LET token     == NewUuid(db)
        expiresAt == t + TokenTTL
    IN  IF "CreateAuthToken" \in faults \/ GetAuthToken(db, token) # {}
           \/ "CreateAuditLog" \in faults
        THEN [db |-> db, resp |-> Error(<<"Failed to create token">>, 500)]
        ELSE LET db1 == UuidUsed(CreateAuthToken(db, token, script.id, expiresAt, t,
                                                 r.ip, r.ua))
                 db2 == CreateAuditLog(db1, "UNLOCK_SUCCESS", script.id, r.path, r.ip, r.ua)
             IN  [db   |-> db2,
                  resp |-> [Response(200, "application/json", "", << >>)
                              EXCEPT !.token = token,
                                     !.expires_at = FormatRFC3339(expiresAt)]]

\* HandleUnlock after the password was verified: q.CreateAuthToken, whose error ends
\* the request, then q.CreateAuditLog, whose error is discarded
IssueTokenUnder(db, t, r, script, faults) ==
    LET token     == NewUuid(db)
        expiresAt == t + TokenTTL
    IN  IF "CreateAuthToken" \in faults \/ GetAuthToken(db, token) # {}
        THEN [db |-> db, resp |-> Error(<<"Failed to create token">>, 500)]
        ELSE LET db1 == UuidUsed(CreateAuthToken(db, token, script.id, expiresAt, t,
                                                 r.ip, r.ua))
                 db2 == IF "CreateAuditLog" \in faults THEN db1
                        ELSE CreateAuditLog(db1, "UNLOCK_SUCCESS", script.id, r.path,
                                            r.ip, r.ua)
             IN  [db   |-> db2,
                  resp |-> [Response(200, "application/json", "", << >>)
                              EXCEPT !.token = token,
                                     !.expires_at = FormatRFC3339(expiresAt)]]

\* HandleUnlock while the statements of faults fail
HandleUnlockUnder(db, t, r, faults) ==
    LET found == GetScriptByPath(Seen(db, faults), r.path)
    IN  IF found = {} THEN [db |-> db, resp |-> Error(<<"Script not found">>, 404)]
        ELSE LET script == CHOOSE s \in found : TRUE
             IN  IF script.locked = 0
                 THEN [db |-> db, resp |-> Error(<<"Script is not locked">>, 400)]
                 ELSE IF script.password_hash = NoHash
                 THEN [db |-> db, resp |-> Error(<<"Script has no password set">>, 500)]
                 ELSE IF ~CompareHashAndPassword(script.password_hash, r.password)
                 THEN [db   |-> IF "CreateAuditLog" \in faults THEN db
                                ELSE CreateAuditLog(db, "UNLOCK_FAILED", script.id, r.path,
                                                    r.ip, r.ua),
                       resp |-> Error(<<"Invalid password">>, 401)]
                 ELSE IssueTokenUnder(db, t, r, script, faults)

\* the loop of ensureFolders from index i on while the statements of faults fail: a
\* lookup that fails is taken for a missing folder, and the error of q.CreateFolder is
\* discarded
RECURSIVE ensureFromUnder(_, _, _, _)
ensureFromUnder(db, parts, i, faults) ==
    IF i >= Len(parts) THEN db
    ELSE LET folderPath == <<"/">> \o Join(SubSeq(parts, 1, i))
             folderName == parts[i]
         IN  IF GetFolderByPath(Seen(db, faults), folderPath) = {} /\ "CreateFolder" \notin faults
             THEN ensureFromUnder(UuidUsed(CreateFolder(db, NewUuid(db), folderPath,
                                                        folderName)),
                                  parts, i + 1, faults)
             ELSE ensureFromUnder(db, parts, i + 1, faults)

\* ensureFolders while the statements of faults fail
ensureFoldersUnder(db, scriptPath, faults) ==
    LET parts == Split(TrimPrefix(scriptPath, <<"/">>))
    IN  IF Len(parts) <= 1 THEN db ELSE ensureFromUnder(db, parts, 1, faults)

\* APICreateScript while the folder statements of faults fail
APICreateScriptUnder(db, r, faults) ==
    IF validatePath(r.path) # << >>
    THEN [db |-> db, resp |-> Error(validatePath(r.path), 400)]
    ELSE InsertScript(ensureFoldersUnder(db, r.path, faults), r)

\* the paths of the write requests: with and without the leading "/", a body of up to
\* MaxBody characters, an ending
BoundedSeqs(S, n) == UNION {[1..k -> S] : k \in 0..n}

PathBodies ==
    BoundedSeqs({"a", "/", "~"}, MaxBody) \cup {<<c>> : c \in {"Z", "7", "_", "-", ".", " "}}

PathEndings == {<<".", "s", "h">>, <<".", "S", "H">>, << >>}

RawPaths == {pre \o body \o ending : pre \in {<< >>, <<"/">>}, body \in PathBodies,
                                     ending \in PathEndings}

-----------------------------------------------------------------------------
(* the store reached by creating the demo scripts through the admin API *)

SeedRequests ==
    <<CreateScriptRequest(PathA, SecretA, SomeMeta, TRUE, PasswordA),
      CreateScriptRequest(PathB, SecretB, NoMeta, TRUE, PasswordB),
      CreateScriptRequest(PathC, PublicText, NoMeta, FALSE, NoPassword),
      CreateScriptRequest(PathP, SecretB, NoMeta, TRUE, NoPassword)>>

RECURSIVE Seeded(_)
Seeded(n) == IF n = 0 THEN EmptyDB ELSE APICreateScript(Seeded(n - 1), SeedRequests[n]).db

SeedDB == Seeded(Len(SeedRequests))

(* the admin API's gate *)

AdminSecret == <<"s3cret">>
WrongSecret == <<"guess">>
BearerPrefix == <<"Bearer ">>

\* the two headers adminOnly reads
WithHeaders(r, xAdminToken, authorization) ==
    r @@ [x_admin_token |-> xAdminToken, authorization |-> authorization]

\* what a requester may put in X-Admin-Token and Authorization
HeaderSets ==
    {<< << >>, << >> >>,
     <<AdminSecret, << >> >>,
     << << >>, BearerPrefix \o AdminSecret>>,
     << << >>, AdminSecret>>,
     << << >>, WrongSecret>>,
     <<WrongSecret, BearerPrefix \o AdminSecret>>,
     <<BearerPrefix \o AdminSecret, << >> >>}

\* the handlers Serve registers behind adminOnly
AdminHandler(db, r, cascade) ==
    CASE r.op = "CREATE" -> APICreateScript(db, r)
      [] r.op = "UPDATE" -> APIUpdateScript(db, r)
      [] r.op = "DELETE" -> APIDeleteScript(db, r, cascade)
      [] r.op = "MKDIR" -> APICreateFolder(db, r)
      [] r.op = "RMDIR" -> APIDeleteFolder(db, r)
      [] r.op = "TREE" -> [db |-> db, resp |-> APIGetTree(db)]

adminOnly_KeepsPrefix(db, adminToken, r, next) ==
    LET token == IF r.x_admin_token = << >> THEN r.authorization ELSE r.x_admin_token
    IN  IF adminToken # << >> /\ token # adminToken
        THEN [db |-> db, resp |-> Error("Unauthorized", 401)]
        ELSE next

\* adminOnly: next runs unless a token is configured and the presented one differs
adminOnly(db, adminToken, r, next) ==
    LET token == IF r.x_admin_token = << >>
                 THEN TrimPrefix(r.authorization, BearerPrefix)
                 ELSE r.x_admin_token
    IN  IF adminToken # << >> /\ token # adminToken
        THEN [db |-> db, resp |-> Error("Unauthorized", 401)]
        ELSE next

-----------------------------------------------------------------------------
(* actions *)

AdminActions == {"CREATE", "UPDATE", "DELETE"}
UnlockActions == {"UNLOCK_FAILED", "UNLOCK_SUCCESS"}

\* no exchange is open: the last response was delivered
Idle == req.op = "none"

\* the handler's writes and its response become the state
Commit(out, r) ==
    /\ Idle
    /\ scripts' = out.db.scripts
    /\ folders' = out.db.folders
    /\ tokens' = out.db.tokens
    /\ versions' = out.db.versions
    /\ audit' = out.db.audit
    /\ uuids' = out.db.uuids
    /\ req' = r
    /\ resp' = out.resp
    /\ UNCHANGED <<foreign_keys, admin_token, now, calls>>

\* the model's caps on the rows written
WithinBounds(db, adminCap, unlockCap) ==
    /\ Cardinality(db.tokens) <= MaxTokens
    /\ CountActions(db.audit, UnlockActions) <= unlockCap
    /\ CountActions(db.audit, AdminActions) <= adminCap

\* time passes between two exchanges
Advance(instants) ==
    /\ Idle
    /\ \E t \in instants : t > now /\ now' = t
    /\ UNCHANGED <<scripts, folders, tokens, versions, audit, uuids, foreign_keys, admin_token, req, resp, calls>>

\* the handler returns and the response is delivered: the exchange is over
Reply ==
    /\ ~Idle
    /\ req' = NoRequest
    /\ resp' = NoResponse
    /\ UNCHANGED <<scripts, folders, tokens, versions, audit, uuids, foreign_keys, admin_token, now, calls>>

\* the tokens a requester may present: none, a made-up one, any issued one
KnownTokens == {<< >>, BogusToken} \cup {t.token : t \in tokens}

\* the (token parameter, Authorization header) pairs of the GET requests
Presentations ==
    {<<k, << >> >> : k \in KnownTokens}
    \cup {<< << >>, <<"Bearer ">> \o k>> : k \in KnownTokens}
    \cup {<< << >>, k>> : k \in {t.token : t \in tokens}}
    \cup {<<BogusToken, <<"Bearer ">> \o t.token>> : t \in tokens}
    \cup {<<t.token, <<"Bearer ">> \o BogusToken>> : t \in tokens}

\* GET /
Root(uas, accepts) ==
    \E ua \in uas, accept \in accepts :
        LET r == PageRequest(PathRoot, ua, accept)
        IN  /\ Idle
            /\ req' = r
            /\ resp' = HandleRoot(r)
            /\ UNCHANGED <<scripts, folders, tokens, versions, audit, uuids, foreign_keys, admin_token, now, calls>>

\* GET /{path...}
Browse(paths, uas, accepts) ==
    \E path \in paths, ua \in uas, accept \in accepts :
        LET r == PageRequest(path, ua, accept)
        IN  /\ Idle
            /\ req' = r
            /\ resp' = routeHandler(DB, now, r)
            /\ UNCHANGED <<scripts, folders, tokens, versions, audit, uuids, foreign_keys, admin_token, now, calls>>

\* the fetch deletes the row of the token it was granted by
Get_ConsumesToken(paths, previews, clients) ==
    \E path \in paths, preview \in previews, p \in Presentations, client \in clients :
        LET r == GetRequest(path, preview, p[1], p[2], client)
            out == HandleScript(DB, now, r)
        IN  /\ Idle
            /\ preview = <<"1">> => p[2] = << >>
            /\ req' = r
            /\ resp' = out
            /\ tokens' = IF out.cache = "no-store"
                         THEN {row \in tokens : row.token # PresentedToken(r)}
                         ELSE tokens
            /\ UNCHANGED <<scripts, folders, versions, audit, uuids, foreign_keys, admin_token,
                           now, calls>>

\* GET /{path}.sh
Get(paths, previews, clients) ==
    \E path \in paths, preview \in previews, p \in Presentations, client \in clients :
        LET r == GetRequest(path, preview, p[1], p[2], client)
        IN  /\ Idle
            /\ preview = <<"1">> => p[2] = << >>
            /\ req' = r
            /\ resp' = HandleScript(DB, now, r)
            /\ UNCHANGED <<scripts, folders, tokens, versions, audit, uuids, foreign_keys, admin_token, now, calls>>

\* POST /_auth/unlock
Unlock(attempts, clients, adminCap, unlockCap) ==
    \E a \in attempts, client \in clients :
        LET r   == UnlockRequest(a[1], a[2], client)
            out == HandleUnlock(DB, now, r)
        IN  Idle /\ WithinBounds(out.db, adminCap, unlockCap) /\ Commit(out, r)

\* POST /api/scripts
Create(paths, contents, passwords, adminCap) ==
    \E path \in paths, content \in contents, locked \in BOOLEAN, password \in passwords :
        LET r   == CreateScriptRequest(path, content, NoMeta, locked, password)
            out == APICreateScript(DB, r)
        IN  Idle /\ WithinBounds(out.db, adminCap, MaxTokens) /\ Commit(out, r)

\* PUT /api/scripts/{id}
Update(paths, contents, passwords, adminCap) ==
    \E id \in {s.id : s \in scripts} \cup {BogusToken}, path \in paths, content \in contents,
       locked \in BOOLEAN, password \in passwords :
        LET r   == UpdateScriptRequest(id, path, content, NoMeta, locked, password)
            out == APIUpdateScript(DB, r)
        IN  Idle /\ WithinBounds(out.db, adminCap, MaxTokens) /\ Commit(out, r)

\* DELETE /api/scripts/{id}
Delete ==
    \E id \in {s.id : s \in scripts} \cup {BogusToken} :
        LET r   == DeleteScriptRequest(id)
            out == APIDeleteScript(DB, r, foreign_keys)
        IN  Idle /\ WithinBounds(out.db, MaxAdminOps, MaxTokens) /\ Commit(out, r)

\* POST /api/folders
Mkdir(paths, uuidCap) ==
    \E path \in paths :
        LET r   == CreateFolderRequest(path)
            out == APICreateFolder(DB, r)
        IN  Idle /\ out.db.uuids <= uuidCap /\ Commit(out, r)

\* DELETE /api/folders/{id}
Rmdir ==
    \E id \in {f.id : f \in folders} \cup {BogusToken} :
        LET r   == DeleteFolderRequest(id)
            out == APIDeleteFolder(DB, r)
        IN  Idle /\ Commit(out, r)

\* GET /_catalog.json
Catalog == Idle /\ Commit([db |-> DB, resp |-> HandleCatalog(DB)], CatalogRequest)

\* GET /api/tree
Tree == Idle /\ Commit([db |-> DB, resp |-> APIGetTree(DB)], TreeRequest)

\* a request to /api/*, through adminOnly
Admin(paths, folderPaths, contents, adminCap) ==
    \E h \in HeaderSets :
        \E plain \in {CreateScriptRequest(path, content, NoMeta, FALSE, NoPassword) :
                         path \in paths, content \in contents}
                     \cup {DeleteScriptRequest(s.id) : s \in scripts}
                     \cup {CreateFolderRequest(path) : path \in folderPaths}
                     \cup {DeleteFolderRequest(f.id) : f \in folders}
                     \cup {TreeRequest} :
            LET r   == WithHeaders(plain, h[1], h[2])
                out == adminOnly(DB, admin_token, r, AdminHandler(DB, r, foreign_keys))
            IN  /\ Idle
                /\ WithinBounds(out.db, adminCap, MaxTokens)
                /\ out.db.uuids <= MaxUuids
                /\ Commit(out, r)

\* a GET of a path, dispatched by the mux
Fetch(paths, clients) ==
    \E path \in paths, client \in clients :
        LET r == PageRequest(path, client.ua, << >>)
        IN  Idle /\ Commit([db |-> DB, resp |-> ServeGet(DB, now, r)], r)

\* the admin page loads its data and renders its tree
LoadData == Idle /\ Commit([db |-> DB, resp |-> loadData(DB)], LoadRequest)

\* the statements that fail during one request: none, or one of those it may run
FaultSets(statements) == {{}} \cup {{s} : s \in statements}

\* GET /{path}.sh while a lookup fails
GetUnder(paths, clients) ==
    \E path \in paths, p \in Presentations, client \in clients,
       faults \in FaultSets({"GetScriptByPath", "GetAuthToken"}) :
        LET r == WithFaults(GetRequest(path, << >>, p[1], p[2], client), faults)
        IN  /\ Idle
            /\ req' = r
            /\ resp' = HandleScriptUnder(DB, now, r, faults)
            /\ UNCHANGED <<scripts, folders, tokens, versions, audit, uuids, foreign_keys, admin_token, now, calls>>

\* POST /_auth/unlock while a statement fails
UnlockUnder(attempts, clients, adminCap, unlockCap) ==
    \E a \in attempts, client \in clients,
       faults \in FaultSets({"GetScriptByPath", "CreateAuthToken", "CreateAuditLog"}) :
        LET r   == WithFaults(UnlockRequest(a[1], a[2], client), faults)
            out == HandleUnlockUnder(DB, now, r, faults)
        IN  Idle /\ WithinBounds(out.db, adminCap, unlockCap) /\ Commit(out, r)

\* POST /api/scripts while a folder statement fails
CreateUnder(paths, contents, adminCap) ==
    \E path \in paths, content \in contents,
       faults \in FaultSets({"GetFolderByPath", "CreateFolder"}) :
        LET r   == WithFaults(CreateScriptRequest(path, content, NoMeta, FALSE, NoPassword),
                              faults)
            out == APICreateScriptUnder(DB, r, faults)
        IN  /\ Idle
            /\ WithinBounds(out.db, adminCap, MaxTokens)
            /\ out.db.uuids <= SeedDB.uuids + MaxAdminOps
            /\ Commit(out, r)

\* GET /api/tree while a listing fails
TreeUnder ==
    \E faults \in FaultSets({"ListScripts", "ListFolders"}) :
        Idle /\ Commit([db |-> DB, resp |-> APIGetTreeUnder(DB, faults)],
                       WithFaults(TreeRequest, faults))

-----------------------------------------------------------------------------
(* requests served concurrently: a handler runs one database statement at a time,
   and the statements of the requests in flight interleave.  The statements of
   APICreateScript that follow ensureFolders write no folder and are taken as
   one step. *)

Workers == {"w1", "w2"}

\* a worker that serves no request
NoCall ==
    [pc |-> "idle", r |-> NoRequest, walk |-> << >>, i |-> 0, target |-> << >>,
     made |-> {}, refused |-> {}, existing |-> << >>, newVersion |-> 0, resp |-> NoResponse]

NoCalls == [w \in Workers |-> NoCall]

\* the store becomes db
StoreIs(db) ==
    /\ scripts' = db.scripts
    /\ folders' = db.folders
    /\ tokens' = db.tokens
    /\ versions' = db.versions
    /\ audit' = db.audit
    /\ uuids' = db.uuids

\* where the handler goes on when ensureFolders returns
AfterWalk(c) == [c EXCEPT !.pc = IF c.r.op = "CREATE" THEN "insert" ELSE "find"]

\* ensureFolders is entered: parts, and the loop from i = 1 when there is a parent
StartWalk(c, scriptPath) ==
    LET parts == Split(TrimPrefix(scriptPath, <<"/">>))
    IN  IF Len(parts) <= 1 THEN AfterWalk(c)
        ELSE [c EXCEPT !.pc = "get", !.walk = parts, !.i = 1]

\* the end of an iteration of the loop of ensureFolders
Walked(c) ==
    IF c.i + 1 < Len(c.walk) THEN [c EXCEPT !.pc = "get", !.i = @ + 1] ELSE AfterWalk(c)

\* the folder path of the current iteration
WalkPath(c) == <<"/">> \o Join(SubSeq(c.walk, 1, c.i))

\* the handler up to its first statement on the database
Accepted(r) ==
    LET c == [NoCall EXCEPT !.r = r]
    IN  IF r.op = "CREATE"
        THEN IF validatePath(r.path) # << >>
             THEN [c EXCEPT !.pc = "done", !.resp = Error(validatePath(r.path), 400)]
             ELSE StartWalk(c, r.path)
        ELSE IF r.op = "MKDIR"
        THEN IF ~HasPrefix(r.path, <<"/">>)
             THEN [c EXCEPT !.pc = "done", !.resp = Error(<<"Path must start with /">>, 400)]
             ELSE StartWalk(c, r.path \o <<"/", "d", "u", "m", "m", "y", ".", "s", "h">>)
        ELSE IF r.op = "UPDATE"
        THEN IF validatePath(r.path) # << >>
             THEN [c EXCEPT !.pc = "done", !.resp = Error(validatePath(r.path), 400)]
             ELSE [c EXCEPT !.pc = "fetch"]
        ELSE [c EXCEPT !.pc = "lookup"]

\* a request arrives at a free worker
Accept(requests) ==
    \E w \in Workers, r \in requests :
        /\ calls[w].pc = "idle"
        /\ calls' = [calls EXCEPT ![w] = Accepted(r)]
        /\ UNCHANGED <<scripts, folders, tokens, versions, audit, uuids, foreign_keys, admin_token, now,
                       req, resp>>

\* ensureFolders: q.GetFolderByPath
GetFolderStep ==
    \E w \in Workers :
        LET c == calls[w]
        IN  /\ c.pc = "get"
            /\ calls' = [calls EXCEPT ![w] =
                            IF GetFolderByPath(DB, WalkPath(c)) = {}
                            THEN [c EXCEPT !.pc = "create"] ELSE Walked(c)]
            /\ UNCHANGED <<scripts, folders, tokens, versions, audit, uuids, foreign_keys, admin_token,
                           now, req, resp>>

\* ensureFolders: q.CreateFolder, its error dropped
CreateFolderStep ==
    \E w \in Workers :
        LET c   == calls[w]
            db1 == UuidUsed(CreateFolder(DB, NewUuid(DB), WalkPath(c), c.walk[c.i]))
            ok  == db1.folders # folders
        IN  /\ c.pc = "create"
            /\ StoreIs(db1)
            /\ calls' = [calls EXCEPT ![w] =
                            Walked([c EXCEPT !.made = IF ok THEN @ \cup {WalkPath(c)} ELSE @,
                                             !.refused = IF ok THEN @ ELSE @ \cup {WalkPath(c)}])]
            /\ UNCHANGED <<foreign_keys, admin_token, now, req, resp>>

\* APICreateScript: q.CreateScript, q.CreateVersion, q.CreateAuditLog
InsertStep ==
    \E w \in Workers :
        LET c   == calls[w]
            out == InsertScript(DB, c.r)
        IN  /\ c.pc = "insert"
            /\ StoreIs(out.db)
            /\ calls' = [calls EXCEPT ![w] = [c EXCEPT !.pc = "done", !.resp = out.resp]]
            /\ UNCHANGED <<foreign_keys, admin_token, now, req, resp>>

\* APICreateFolder: q.GetFolderByPath of the folder asked for
FindStep ==
    \E w \in Workers :
        LET c     == calls[w]
            found == GetFolderByPath(DB, c.r.path)
            answer == IF found = {} THEN Error(<<"Failed to create folder">>, 500)
                      ELSE LET folder == CHOOSE f \in found : TRUE
                           IN  Response(201, "application/json", "",
                                        <<folder.id, folder.path, folder.name>>)
        IN  /\ c.pc = "find"
            /\ calls' = [calls EXCEPT ![w] = [c EXCEPT !.pc = "done", !.resp = answer]]
            /\ UNCHANGED <<scripts, folders, tokens, versions, audit, uuids, foreign_keys, admin_token,
                           now, req, resp>>

\* APIDeleteFolder: q.GetFolder
LookupStep ==
    \E w \in Workers :
        LET c     == calls[w]
            found == GetFolder(DB, c.r.id)
        IN  /\ c.pc = "lookup"
            /\ calls' = [calls EXCEPT ![w] =
                            IF found = {}
                            THEN [c EXCEPT !.pc = "done",
                                           !.resp = Error(<<"Folder not found">>, 404)]
                            ELSE [c EXCEPT !.pc = "delete",
                                           !.target = (CHOOSE f \in found : TRUE).path]]
            /\ UNCHANGED <<scripts, folders, tokens, versions, audit, uuids, foreign_keys, admin_token,
                           now, req, resp>>

\* APIDeleteFolder: q.DeleteFolderByPath
DeleteStep ==
    \E w \in Workers :
        LET c == calls[w]
        IN  /\ c.pc = "delete"
            /\ StoreIs(DeleteFolderByPath(DB, c.target))
            /\ calls' = [calls EXCEPT ![w] =
                            [c EXCEPT !.pc = "done", !.resp = Response(204, "", "", << >>)]]
            /\ UNCHANGED <<foreign_keys, admin_token, now, req, resp>>

\* APIUpdateScript: q.GetScript
FetchStep ==
    \E w \in Workers :
        LET c     == calls[w]
            found == GetScript(DB, c.r.id)
        IN  /\ c.pc = "fetch"
            /\ calls' = [calls EXCEPT ![w] =
                            IF found = {}
                            THEN [c EXCEPT !.pc = "done",
                                           !.resp = Error(<<"Script not found">>, 404)]
                            ELSE [c EXCEPT !.pc = "update",
                                           !.existing = CHOOSE s \in found : TRUE]]
            /\ UNCHANGED <<scripts, folders, tokens, versions, audit, uuids, foreign_keys, admin_token,
                           now, req, resp>>

\* APIUpdateScript: q.UpdateScript
UpdateStep ==
    \E w \in Workers :
        LET c   == calls[w]
            passwordHash == IF c.r.locked
                            THEN IF c.r.password # << >>
                                 THEN GenerateFromPassword(c.r.password)
                                 ELSE c.existing.password_hash
                            ELSE NoHash
            out == UpdateScript(DB, ScriptRow(c.r.id, c.r, passwordHash))
        IN  /\ c.pc = "update"
            /\ StoreIs(out.db)
            /\ calls' = [calls EXCEPT ![w] =
                            IF out.ok
                            THEN [c EXCEPT !.pc = IF c.existing.content # c.r.content
                                                  THEN "list" ELSE "record"]
                            ELSE [c EXCEPT !.pc = "done",
                                           !.resp = Error(<<"Failed to update script">>, 500)]]
            /\ UNCHANGED <<foreign_keys, admin_token, now, req, resp>>

\* APIUpdateScript, the content changed: q.ListVersions and the number of the new version
ListStep ==
    \E w \in Workers :
        LET c == calls[w]
        IN  /\ c.pc = "list"
            /\ calls' = [calls EXCEPT ![w] =
                            [c EXCEPT !.pc = "record",
                                      !.newVersion = LatestVersion(DB, c.r.id) + 1]]
            /\ UNCHANGED <<scripts, folders, tokens, versions, audit, uuids, foreign_keys,
                           admin_token, now, req, resp>>

\* APIUpdateScript: q.CreateVersion when the content changed, q.CreateAuditLog
RecordStep ==
    \E w \in Workers :
        LET c   == calls[w]
            db1 == IF c.existing.content # c.r.content
                   THEN CreateVersion(DB, c.r.id, c.r.content, c.newVersion)
                   ELSE DB
            db2 == CreateAuditLog(db1, "UPDATE", c.r.id, c.r.path, << >>, << >>)
        IN  /\ c.pc = "record"
            /\ StoreIs(db2)
            /\ calls' = [calls EXCEPT ![w] =
                            [c EXCEPT !.pc = "done",
                                      !.resp = Response(200, "application/json", "", << >>)]]
            /\ UNCHANGED <<foreign_keys, admin_token, now, req, resp>>

-----------------------------------------------------------------------------
(* specifications *)

\* the rows and the connection at start-up
InitRows(db) ==
    /\ scripts = db.scripts
    /\ folders = db.folders
    /\ tokens = db.tokens
    /\ versions = db.versions
    /\ audit = db.audit
    /\ uuids = db.uuids
    /\ foreign_keys \in BOOLEAN
    /\ now = 0
    /\ req = NoRequest
    /\ resp = NoResponse
    /\ calls = NoCalls

\* the server on an empty database: admin writes, unlocks and fetches

\* a server started without ADMIN_TOKEN
InitStore(db) ==
    /\ admin_token = << >>
    /\ InitRows(db)

Init == InitStore(EmptyDB)

Next ==
    \/ Create({PathA, <<"a", ".", "s", "h">>}, {SecretA}, {PasswordA}, MaxAdminOps)
    \/ Update({PathA, PathB}, {SecretA}, {NoPassword}, MaxAdminOps)
    \/ Delete
    \/ Unlock({PathA, PathB} \X {PasswordA}, {Client1}, MaxAdminOps, MaxTokens)
    \/ Get({PathA, PathB}, {<< >>, <<"1">>}, {Client1})
    \/ Advance({TokenTTL})
    \/ Reply

Spec == Init /\ [][Next]_vars

\* the lock gate on the demo store: unlocks and fetches only
InitGate == InitStore(SeedDB)

NextGate ==
    \/ Unlock({<<PathA, PasswordA>>, <<PathB, PasswordB>>}, {Client1},
              Len(SeedRequests), MaxTokens)
    \/ Get({PathA, PathB, PathC, PathMissing}, {<< >>, <<"1">>}, {Client1})
    \/ Advance(Instants)
    \/ Reply

SpecGate == InitGate /\ [][NextGate]_vars

\* password attempts on the demo store
NextUnlock ==
    \/ Unlock({PathA, PathC, PathP, PathMissing} \X {PasswordA, WrongPassword}, {Client1},
              Len(SeedRequests), MaxUnlocks)
    \/ Advance(Instants)
    \/ Reply

SpecUnlock == InitGate /\ [][NextUnlock]_vars

\* content negotiation on the demo store: the root and the other pages
NextPages ==
    \/ Root(UserAgents, Accepts)
    \/ Browse({PathDocs, PathDeep, PathC, PathMissing}, UserAgents, Accepts)
    \/ Reply

SpecPages == InitGate /\ [][NextPages]_vars

\* the write requests on a store that holds the public demo script, one write to the
\* store per behaviour: every path is tried on the same store
PathSeedDB == APICreateScript(EmptyDB, SeedRequests[3]).db

PathWrites == Cardinality(PathSeedDB.scripts) + 1

InitPaths == InitStore(PathSeedDB)

NextPaths ==
    \/ Create(RawPaths, {SecretA}, {NoPassword}, PathWrites)
    \/ Update(RawPaths, {SecretA}, {NoPassword}, PathWrites)
    \/ Get({PathC, <<"c", ".", "s", "h">>}, {<< >>}, {Client1})
    \/ Reply

SpecPaths == InitPaths /\ [][NextPaths]_vars

\* scripts and folders on an empty database: nested creates, folder creates and deletes
FolderD == <<"/", "d">>
FolderDE == <<"/", "d", "/", "e">>

NextFolders ==
    \/ Create({PathB, PathF}, {SecretA}, {NoPassword}, MaxAdminOps) /\ uuids' <= MaxUuids
    \/ Mkdir({FolderD, FolderDE, <<"d">>}, MaxUuids)
    \/ Rmdir
    \/ Reply

SpecFolders == Init /\ [][NextFolders]_vars

\* two requests in flight on the demo store: script creates, a folder create, folder deletes
RaceRequests ==
    {CreateScriptRequest(path, PublicText, NoMeta, FALSE, NoPassword) :
        path \in {PathF, PathV, PathW}}
    \cup {CreateFolderRequest(FolderDE)}
    \cup {DeleteFolderRequest(f.id) : f \in folders}

NextRace ==
    \/ Accept(RaceRequests)
    \/ GetFolderStep
    \/ CreateFolderStep
    \/ InsertStep
    \/ FindStep
    \/ LookupStep
    \/ DeleteStep

SpecRace == InitGate /\ [][NextRace]_vars

FolderT == <<"/", "t">>

\* two requests in flight on the demo store: script creates, moves of the stored
\* scripts, a folder create
MoveRequests ==
    {CreateScriptRequest(path, PublicText, NoMeta, FALSE, NoPassword) : path \in {PathV, PathW}}
    \cup {UpdateScriptRequest(s.id, path, PublicText, NoMeta, FALSE, NoPassword) :
             s \in {t \in scripts : t.path \in {PathA, PathC}}, path \in {PathV, PathC}}
    \cup {CreateFolderRequest(FolderT)}

NextMoves ==
    \/ Accept(MoveRequests)
    \/ GetFolderStep
    \/ CreateFolderStep
    \/ InsertStep
    \/ FindStep
    \/ FetchStep
    \/ UpdateStep
    \/ ListStep
    \/ RecordStep

SpecMoves == InitGate /\ [][NextMoves]_vars

FolderA == <<"/", "a">>
FolderAB == <<"/", "a", "/", "b">>
PathABC == <<"/", "a", "/", "b", "/", "c", ".", "s", "h">>
PathX == <<"/", "x", ".", "s", "h">>
PathXY == <<"/", "x", ".", "s", "h", "/", "y", ".", "s", "h">>
PathCapB == <<"/", "B", ".", "s", "h">>

\* scripts and folders on an empty database, listed as tree and by the admin page
NextTree ==
    \/ Create({PathABC, PathX, PathXY}, {PublicText}, {PasswordA}, MaxAdminOps)
       /\ uuids' <= MaxUuids
    \/ Mkdir({FolderAB}, MaxUuids)
    \/ Rmdir
    \/ Tree
    \/ LoadData
    \/ Reply

SpecTree == Init /\ [][NextTree]_vars

\* scripts on an empty database, listed as catalog
NextCatalog ==
    \/ Create({PathABC, PathX, PathCapB}, {PublicText, SecretA}, {PasswordA, PasswordB},
              MaxAdminOps)
       /\ uuids' <= MaxUuids
    \/ Catalog
    \/ Reply

SpecCatalog == Init /\ [][NextCatalog]_vars

\* the demo store served while single statements fail
NextFaults ==
    \/ GetUnder({PathA, PathC, PathMissing}, {Client1})
    \/ UnlockUnder({<<PathA, PasswordA>>, <<PathA, WrongPassword>>, <<PathMissing, PasswordA>>},
                   {Client1}, Len(SeedRequests) + 1, MaxUnlocks)
    \/ CreateUnder({PathF}, {PublicText}, Len(SeedRequests) + 1)
    \/ TreeUnder
    \/ Reply

SpecFaults == InitGate /\ [][NextFaults]_vars

\* every kind of request that writes, on an empty database
NextAudit ==
    \/ Create({PathB}, {SecretA}, {PasswordA}, MaxAdminOps) /\ uuids' <= MaxUuids
    \/ Update({PathB}, {PublicText}, {NoPassword}, MaxAdminOps)
    \/ Delete
    \/ Unlock({<<PathB, PasswordA>>, <<PathB, WrongPassword>>}, {Client1}, MaxAdminOps,
              MaxTokens)
       /\ uuids' <= MaxUuids
    \/ Mkdir({FolderD}, MaxUuids)
    \/ Rmdir
    \/ Reply

SpecAudit == Init /\ [][NextAudit]_vars

\* a server started with or without ADMIN_TOKEN
InitAdmin ==
    /\ admin_token \in {<< >>, AdminSecret}
    /\ InitRows(EmptyDB)

NextAdmin ==
    \/ Admin({PathB}, {FolderD}, {PublicText}, MaxAdminOps)
    \/ Reply

SpecAdmin == InitAdmin /\ [][NextAdmin]_vars

NextRoutes ==
    \/ Create({PathHelp, PathSearch, PathB}, {PublicText, SecretA}, {NoPassword}, MaxAdminOps)
       /\ uuids' <= MaxUuids
    \/ Delete
    \/ Fetch({PathHelp, PathSearch, PathB, <<"/">>, FolderD}, {Client1})
    \/ Reply

SpecRoutes == Init /\ [][NextRoutes]_vars

FolderRoot == <<"/">>
FolderASlash == <<"/", "a", "/">>

NextSlash ==
    \/ Create({PathABC, PathX}, {PublicText}, {NoPassword}, MaxAdminOps) /\ uuids' <= MaxUuids
    \/ Mkdir({FolderRoot, FolderASlash}, MaxUuids)
    \/ Rmdir
    \/ Tree
    \/ Reply

SpecSlash == Init /\ [][NextSlash]_vars

NextSession ==
    \/ Unlock({<<PathA, PasswordA>>, <<PathA, WrongPassword>>, <<PathB, PasswordA>>}, {Client1},
              Len(SeedRequests), MaxTokens)
    \/ Get({PathA, PathB}, {<< >>}, {Client1})
    \/ Advance(Instants)
    \/ Reply

SpecSession == InitGate /\ [][NextSession]_vars

NextNames ==
    \/ Create({PathB}, {PublicText}, {NoPassword}, MaxAdminOps) /\ uuids' <= MaxUuids
    \/ Update({PathB, PathX}, {PublicText}, {NoPassword}, MaxAdminOps)
    \/ Mkdir({FolderRoot, FolderASlash}, MaxUuids)
    \/ Reply

SpecNames == Init /\ [][NextNames]_vars

FolderUnderscore == <<"/", "a", "_", "b">>
FolderAXBC == <<"/", "a", "X", "b", "/", "c">>
FolderCapAC == <<"/", "A", "/", "c">>

NextLike ==
    \/ Mkdir({FolderUnderscore, FolderAXBC, FolderCapAC, FolderAB}, MaxUuids)
    \/ Rmdir
    \/ Reply

SpecLike == Init /\ [][NextLike]_vars

-----------------------------------------------------------------------------
(* vocabulary of the properties *)

Bearer(token) == <<"Bearer ">> \o token

\* the body carries a line of the script's stored content
LeaksContent(response, script) ==
    \E i \in DOMAIN response.body, j \in DOMAIN script.content :
        response.body[i] = script.content[j]

\* the request carries, as parameter or as bearer header, a token whose row names
\* the script and expires strictly after the current time
CarriesLiveToken(r, script) ==
    \E row \in tokens :
        /\ row.token \in {r.query_token, TrimPrefix(r.authorization, <<"Bearer ">>)}
        /\ row.script_id = script.id
        /\ row.expires_at > now

\* the gated content of a script
Granted(script) == Response(200, "text/plain; charset=utf-8", "no-store", script.content)

\* the last exchange was a GET of the path of script
FetchOf(script) == req.op = "GET" /\ req.path = script.path

LockedScripts == {s \in scripts : s.locked # 0}

-----------------------------------------------------------------------------
(* C1: a GET on the path of a locked script, whatever its query parameters
   (preview=1 included), returns no part of the stored content unless the
   request carries a token whose row has the script's id and an expires_at
   strictly in the future. *)
C1_LockedContentWithheld ==
    \A s \in LockedScripts :
        (FetchOf(s) /\ LeaksContent(resp, s)) => CarriesLiveToken(req, s)

(* C2: on a locked script (a fetch that reaches the lock check, i.e. without
   preview=1) the response is the content if and only if a token is supplied,
   a row with that value exists, its script_id is the script's id and its
   expires_at is strictly after the current time; in every other case (no
   token, unknown token, token of another script, expired token, expires_at
   equal to now) the response is the password prompt. *)
C2_SuppliedToken(r) ==
    IF r.query_token # << >> THEN r.query_token
    ELSE TrimPrefix(r.authorization, <<"Bearer ">>)

C2_ShouldGrant(r, s) ==
    /\ C2_SuppliedToken(r) # << >>
    /\ \E row \in tokens :
        /\ row.token = C2_SuppliedToken(r)
        /\ row.script_id = s.id
        /\ ~(row.expires_at <= now)

C2_GrantedIffLiveToken ==
    \A s \in LockedScripts :
        (FetchOf(s) /\ req.preview # <<"1">>) =>
            IF C2_ShouldGrant(req, s) THEN resp = Granted(s)
            ELSE resp = servePasswordPrompt(s.path)

\* a fetch was refused at the very instant its token expires
C2_Witness ==
    \E s \in LockedScripts, row \in tokens :
        /\ FetchOf(s) /\ req.preview # <<"1">>
        /\ req.query_token = row.token
        /\ row.script_id = s.id
        /\ row.expires_at = now
        /\ resp = servePasswordPrompt(s.path)

(* C3: a token issued for script A never grants access to a different script
   B when presented with B's path, as parameter or as bearer header; B may
   have been created at A's former path after A was deleted or moved away:
   the token is bound to A's id, not to a path. *)
C3_TokenBoundToScript ==
    \A s \in LockedScripts, row \in tokens :
        row.script_id # s.id =>
            /\ HandleScript(DB, now, GetRequest(s.path, << >>, row.token, << >>, Client1))
                 = servePasswordPrompt(s.path)
            /\ HandleScript(DB, now, GetRequest(s.path, << >>, << >>, Bearer(row.token), Client1))
                 = servePasswordPrompt(s.path)

\* an unexpired token, issued at this path for a script that is no longer there, was
\* presented at the path to the locked script that took its place, and refused
C3_Witness ==
    \E s \in LockedScripts, row \in tokens :
        /\ FetchOf(s) /\ req.preview # <<"1">>
        /\ req.query_token = row.token
        /\ row.script_id # s.id
        /\ row.expires_at > now
        /\ \E i \in DOMAIN audit :
            /\ audit[i].action = "UNLOCK_SUCCESS"
            /\ audit[i].entity_id = row.script_id
            /\ audit[i].entity_path = s.path
        /\ resp = servePasswordPrompt(s.path)

(* C4: a token validates for its own script from its issuance on at every
   time before expires_at (one second before it included) and never at or
   after expires_at (one second after it included); the serving path removes
   no token row, so expired rows stay in the store and are refused when
   they are presented. *)
C4_ValidUntilExpiry ==
    /\ \A row \in tokens, s \in LockedScripts :
        row.script_id = s.id =>
            LET answer == HandleScript(DB, now, GetRequest(s.path, << >>, row.token, << >>,
                                                           Client1))
            IN  IF now < row.expires_at THEN answer = Granted(s)
                ELSE answer = servePasswordPrompt(s.path)
    /\ (req.op = "UNLOCK" /\ resp.status = 200) =>
            \E row \in tokens, s \in LockedScripts :
                /\ row.token = resp.token /\ s.path = req.path /\ row.script_id = s.id
                /\ HandleScript(DB, now, GetRequest(s.path, << >>, row.token, << >>, Client1))
                     = Granted(s)
    /\ Cardinality(tokens) = CountActions(audit, {"UNLOCK_SUCCESS"})

\* one second after its expiry a token, still in the store, was presented and refused
C4_Witness ==
    \E s \in LockedScripts, row \in tokens :
        /\ FetchOf(s) /\ req.preview # <<"1">>
        /\ req.query_token = row.token
        /\ row.script_id = s.id
        /\ now = row.expires_at + TicksPerSecond
        /\ resp = servePasswordPrompt(s.path)

\* one second before its expiry a token was presented and the content was served
C4_WitnessBefore ==
    \E s \in LockedScripts, row \in tokens :
        /\ FetchOf(s) /\ req.preview # <<"1">>
        /\ req.query_token = row.token
        /\ row.script_id = s.id
        /\ now + TicksPerSecond = row.expires_at
        /\ resp = Granted(s)

(* C5: on a locked script that has a password hash, a wrong-password attempt
   appends exactly one UNLOCK_FAILED audit entry, returns 401 and creates no
   token; a correct-password attempt creates exactly one token row and
   appends exactly one UNLOCK_SUCCESS entry.  Hence the token rows are as many
   as the UNLOCK_SUCCESS entries. *)
\* the password the demo script at the path was created with
C5_PasswordOf(path) ==
    LET i == CHOOSE k \in DOMAIN SeedRequests : SeedRequests[k].path = path
    IN  SeedRequests[i].password

C5_AuditEntry(action, s, r) ==
    [action |-> action, entity_type |-> "script", entity_id |-> s.id, entity_path |-> r.path,
     ip_address |-> r.ip, user_agent |-> r.ua]

C5_UnlockStep ==
    (Idle /\ req'.op = "UNLOCK") =>
        \A s \in scripts :
            (s.path = req'.path /\ s.locked # 0 /\ s.password_hash # NoHash) =>
                IF req'.password = C5_PasswordOf(s.path)
                THEN /\ tokens \subseteq tokens'
                     /\ Cardinality(tokens') = Cardinality(tokens) + 1
                     /\ audit' = Append(audit, C5_AuditEntry("UNLOCK_SUCCESS", s, req'))
                     /\ resp'.status = 200
                ELSE /\ tokens' = tokens
                     /\ audit' = Append(audit, C5_AuditEntry("UNLOCK_FAILED", s, req'))
                     /\ resp'.status = 401
                     /\ resp'.token = << >>

C5_OneEntryPerAttempt ==
    /\ [][C5_UnlockStep]_vars
    /\ [](Cardinality(tokens) = CountActions(audit, {"UNLOCK_SUCCESS"}))

\* three failures followed by one success: 3 UNLOCK_FAILED, 1 UNLOCK_SUCCESS, 1 token
C5_Witness ==
    /\ req.op = "UNLOCK" /\ resp.status = 200
    /\ Len(audit) = Len(SeedRequests) + 4
    /\ \A i \in 1..3 : audit[Len(SeedRequests) + i].action = "UNLOCK_FAILED"
    /\ audit[Len(SeedRequests) + 4].action = "UNLOCK_SUCCESS"
    /\ Cardinality(tokens) = 1

(* C6 (as claimed): every token row created by a successful unlock has a token
   value distinct from every other row's, names exactly the script whose
   password was verified, has expires_at equal to its issue time plus exactly
   5 minutes, and the expires_at returned to the caller equals the stored
   one. *)
C6_FiveMinutes == 5 * 60 * TicksPerSecond

C6_IssuedRow(row) ==
    /\ row.token = resp.token
    /\ \A other \in tokens : other.token = row.token => other = row
    /\ \E s \in scripts : s.path = req.path /\ row.script_id = s.id
    /\ row.expires_at = now + C6_FiveMinutes

C6_ReturnedExpiryIsStored ==
    (req.op = "UNLOCK" /\ resp.status = 200) =>
        \E row \in tokens :
            C6_IssuedRow(row) /\ ParseRFC3339(resp.expires_at) = row.expires_at

(* C6 (amended): as above, except that the expires_at returned to the caller
   is the stored one truncated to whole seconds (an RFC3339 timestamp without
   a fraction): it is never later than the stored one and less than a second
   earlier. *)
C6_ReturnedExpiryIsTruncated ==
    (req.op = "UNLOCK" /\ resp.status = 200) =>
        \E row \in tokens :
            /\ C6_IssuedRow(row)
            /\ ParseRFC3339(resp.expires_at) <= row.expires_at
            /\ row.expires_at < ParseRFC3339(resp.expires_at + 1)

\* a second token was issued, within a second, for a second script
C6_Witness ==
    /\ req.op = "UNLOCK" /\ resp.status = 200
    /\ Cardinality(tokens) = 2
    /\ ParseRFC3339(resp.expires_at) # now + C6_FiveMinutes
    /\ \E a \in tokens, b \in tokens : a.script_id # b.script_id /\ a.token # b.token

(* C7: an unlock never issues a token on an error outcome: for a path with no
   script it answers NotFound (404), for a script that is not locked a "not
   locked" client error (400), for a locked script without password_hash a
   server error (500); in the three cases, whatever the password, no token row
   is created and the store is unchanged. *)
C7_ErrorStep ==
    (Idle /\ req'.op = "UNLOCK") =>
        LET at == {s \in scripts : s.path = req'.path}
        IN  /\ at = {} => resp'.status = 404
            /\ \A s \in at : s.locked = 0 =>
                   resp' = Error(<<"Script is not locked">>, 400)
            /\ \A s \in at : (s.locked # 0 /\ s.password_hash = NoHash) =>
                   resp'.status = 500
            /\ (at = {} \/ \E s \in at : s.locked = 0 \/ s.password_hash = NoHash) =>
                   /\ resp'.token = << >>
                   /\ UNCHANGED store

C7_NoTokenOnError == [][C7_ErrorStep]_vars

\* a password was tried on a locked script that has no password hash
C7_Witness ==
    /\ req.op = "UNLOCK"
    /\ req.password # << >>
    /\ \E s \in LockedScripts : s.path = req.path /\ s.password_hash = NoHash
    /\ resp.status = 500
    /\ tokens = {}

(* C8: for a locked script the response to a gated fetch is the same (status,
   headers and body) in every token-failure mode: no token, an unknown token,
   an expired token of the script, an unexpired token of another script; so
   the response tells nothing about the tokens in the store. *)
C8_FailingTokens(s) ==
    {<< >>, BogusToken}
    \cup {row.token : row \in {x \in tokens : x.script_id = s.id /\ x.expires_at <= now}}
    \cup {row.token : row \in {x \in tokens : x.script_id # s.id}}

C8_FailureResponses(s) ==
    {HandleScript(DB, now, GetRequest(s.path, << >>, k, << >>, Client1)) :
        k \in C8_FailingTokens(s)}
    \cup {HandleScript(DB, now, GetRequest(s.path, << >>, << >>, Bearer(k), Client1)) :
        k \in C8_FailingTokens(s)}

\* stated of the store between two exchanges: Reply leaves the store as it is, so
\* every store the server reaches is the store of such a state
C8_FailuresLookAlike ==
    Idle => \A s \in LockedScripts : Cardinality(C8_FailureResponses(s)) = 1

\* the store holds an expired token of the script and an unexpired token of another
\* script, and the latter was presented and answered with the prompt
C8_Witness ==
    \E s \in LockedScripts, mine \in tokens, other \in tokens :
        /\ mine.script_id = s.id /\ mine.expires_at <= now
        /\ other.script_id # s.id /\ other.expires_at > now
        /\ FetchOf(s) /\ req.preview # <<"1">>
        /\ req.query_token = other.token
        /\ resp = servePasswordPrompt(s.path)

(* C9: on a gated fetch the token is the query parameter `token`, and the
   `Authorization: Bearer <token>` header only when the parameter is absent or
   empty; a request carrying a valid token in either position, the other
   being absent, is Granted. *)
C9_Fetch(s, q, a) == HandleScript(DB, now, GetRequest(s.path, << >>, q, a, Client1))

\* stated of the store between two exchanges, as C8
C9_QueryThenBearer ==
    Idle => \A s \in LockedScripts :
        /\ \A p \in Presentations :
            C9_Fetch(s, p[1], p[2]) =
                IF p[1] # << >> THEN C9_Fetch(s, p[1], << >>)
                ELSE C9_Fetch(s, TrimPrefix(p[2], <<"Bearer ">>), << >>)
        /\ \A row \in tokens :
            (row.script_id = s.id /\ row.expires_at > now) =>
                /\ C9_Fetch(s, row.token, << >>) = Granted(s)
                /\ C9_Fetch(s, << >>, Bearer(row.token)) = Granted(s)

\* a request with an unknown token as parameter and a valid one as bearer was refused
C9_Witness ==
    \E s \in LockedScripts, row \in tokens :
        /\ FetchOf(s) /\ req.preview # <<"1">>
        /\ req.query_token = BogusToken
        /\ req.authorization = Bearer(row.token)
        /\ row.script_id = s.id /\ row.expires_at > now
        /\ resp = servePasswordPrompt(s.path)

\* a request with a valid token as bearer and no parameter was granted
C9_WitnessBearer ==
    \E s \in LockedScripts, row \in tokens :
        /\ FetchOf(s) /\ req.preview # <<"1">>
        /\ req.query_token = << >>
        /\ req.authorization = Bearer(row.token)
        /\ resp = Granted(s)

(* C10: tokens are not renewable and not bound to provenance: no operation
   (gated fetch, repeated unlock, script update, ...) changes the expires_at of
   a token row that exists, and the answer to a fetch does not depend on the
   requester's address or User-Agent, the presenting ones or the ones recorded
   in the row. *)
C10_NoRenewal ==
    \A row \in tokens : \A after \in tokens' :
        after.token = row.token => after.expires_at = row.expires_at

\* stated of the store between two exchanges, as C8
C10_SameForAnyRequester ==
    Idle => \A path \in {s.path : s \in scripts}, p \in Presentations :
        HandleScript(DB, now, GetRequest(path, << >>, p[1], p[2], Client1))
          = HandleScript(DB, now, GetRequest(path, << >>, p[1], p[2], Client2))

C10_NotRenewableNotBound == [][C10_NoRenewal]_vars /\ []C10_SameForAnyRequester

\* a script was updated and then unlocked again: its earlier token is in the store with
\* the expiry it was issued with
C10_Witness ==
    /\ req.op = "UNLOCK" /\ resp.status = 200
    /\ \E i \in DOMAIN audit : audit[i].action = "UPDATE"
    /\ \E old \in tokens, new \in tokens :
        /\ old.script_id = new.script_id
        /\ new.token = resp.token
        /\ old.expires_at < new.expires_at
        /\ \E i, j \in DOMAIN audit :
            /\ i < j
            /\ audit[i].action = "UNLOCK_SUCCESS" /\ audit[i].entity_id = old.script_id
            /\ audit[j].action = "UPDATE" /\ audit[j].entity_id = old.script_id

-----------------------------------------------------------------------------
(* vocabulary of content negotiation *)

\* the User-Agent contains a signature, whatever the case of its letters
HasSignature(ua) ==
    \E k \in DOMAIN cliPatterns : \E i \in 0..(Len(ua) - Len(cliPatterns[k])) :
        ToLower(SubSeq(ua, i + 1, i + Len(cliPatterns[k]))) = cliPatterns[k]

WantsHTML(accept) == Contains(accept, TextHTML)

\* the exchange is a GET that the classification decides: the root or a path without .sh
PageOf ==
    /\ req.op = "GET" /\ "accept" \in DOMAIN req
    /\ ~HasSuffix(req.path, <<".", "s", "h">>)

\* the requester was answered as a command-line client, as a browser
AnsweredCLI == resp = IF req.path = PathRoot THEN RootLines ELSE NotFound
AnsweredBrowser == resp = serveHTML

(* C11: a request whose User-Agent contains, in any case of its letters, one of
   the CLI signatures is classified CLI whatever its Accept header, also when
   Accept contains text/html. *)
C11_SignatureWins == (PageOf /\ HasSignature(req.ua)) => AnsweredCLI

\* a header with a signature in capitals and an Accept asking for HTML was answered as CLI
C11_Witness ==
    /\ PageOf /\ HasSignature(req.ua) /\ req.ua # ToLower(req.ua)
    /\ WantsHTML(req.accept) /\ AnsweredCLI

(* C12: a request with an empty User-Agent and an Accept header that does not
   contain text/html is classified CLI. *)
C12_AnonymousIsCLI == (PageOf /\ req.ua = << >> /\ ~WantsHTML(req.accept)) => AnsweredCLI

\* no User-Agent and a non-empty Accept other than text/html: answered as CLI
C12_Witness ==
    /\ PageOf /\ req.ua = << >> /\ req.accept # << >> /\ ~WantsHTML(req.accept)
    /\ AnsweredCLI

(* C13: a request whose User-Agent contains no signature is classified Browser
   when Accept contains text/html, also with an empty User-Agent, and when the
   User-Agent is non-empty and Accept lacks text/html; every request is
   classified as exactly one of CLI and Browser. *)
C13_OtherwiseBrowser ==
    PageOf =>
        /\ (~HasSignature(req.ua) /\ WantsHTML(req.accept)) => AnsweredBrowser
        /\ (~HasSignature(req.ua) /\ req.ua # << >> /\ ~WantsHTML(req.accept)) => AnsweredBrowser
        /\ AnsweredCLI # AnsweredBrowser

\* no User-Agent and an Accept asking for HTML: answered as a browser
C13_Witness ==
    /\ PageOf /\ req.ua = << >> /\ WantsHTML(req.accept) /\ AnsweredBrowser

\* a User-Agent without signature and an Accept without text/html: answered as a browser
C13_WitnessOther ==
    /\ PageOf /\ req.ua # << >> /\ ~HasSignature(req.ua) /\ ~WantsHTML(req.accept)
    /\ AnsweredBrowser

-----------------------------------------------------------------------------
(* vocabulary of the path rules *)

\* the path grammar ^/[A-Za-z0-9_/.-]+\.sh$
MatchesGrammar(path) ==
    /\ Len(path) >= 5
    /\ path[1] = "/"
    /\ \A i \in 2..(Len(path) - 3) : path[i] \in PathChars
    /\ SubSeq(path, Len(path) - 2, Len(path)) = <<".", "s", "h">>

WriteOps == {"CREATE", "UPDATE"}

PathErrors ==
    {<<"path must start with /">>, <<"path must end with .sh">>,
     <<"path contains invalid characters">>}

\* the write was refused by the validation of its path
PathRejected == \E e \in PathErrors : resp = Error(e, 400)

Stored == resp.status \in {200, 201}

(* C14: for every path of the grammar ^/[A-Za-z0-9_/.-]+\.sh$ the validation
   succeeds, and validating what it hands on (the path, as it is stored) succeeds
   again with the same result. *)
C14_GrammarPathsPass ==
    (req.op \in WriteOps /\ MatchesGrammar(req.path)) =>
        /\ ~PathRejected
        /\ validatePath(req.path) = << >>
        /\ Stored => \E s \in scripts :
                        s.path = req.path /\ validatePath(s.path) = validatePath(req.path)

\* a script was created at a nested path of the grammar
C14_Witness ==
    /\ req.op = "CREATE" /\ MatchesGrammar(req.path) /\ resp.status = 201
    /\ \E i \in 2..Len(req.path) : req.path[i] = "/"
    /\ \E s \in scripts : s.path = req.path

(* C15 (as claimed): a raw path without the leading "/" gets it prepended and is
   then accepted or rejected by the suffix and character rules; it is not
   rejected for the missing "/". *)
C15_SlashPrepended ==
    (req.op \in WriteOps /\ ~HasPrefix(req.path, <<"/">>)
        /\ MatchesGrammar(<<"/">> \o req.path)) => ~PathRejected

(* C15 (amended): the validation does not normalize: a write whose raw path
   lacks the leading "/" is refused with 400 "path must start with /" and leaves
   the store as it is, whatever the rest of the path; the "/" is prepended only
   when a script is fetched. *)
C15_WriteOf(r) == r.op \in WriteOps /\ ~HasPrefix(r.path, <<"/">>)

C15_Refused ==
    (Idle /\ C15_WriteOf(req')) =>
        /\ resp' = Error(<<"path must start with /">>, 400)
        /\ UNCHANGED store

C15_FetchNormalizes ==
    (req.op = "GET" /\ ~HasPrefix(req.path, <<"/">>)) =>
        resp = HandleScript(DB, now, [req EXCEPT !.path = <<"/">> \o @])

C15_SlashRequired == [][C15_Refused]_vars /\ []C15_FetchNormalizes

\* a path that would be in the grammar with the "/" prepended was refused
C15_Witness ==
    /\ C15_WriteOf(req) /\ MatchesGrammar(<<"/">> \o req.path)
    /\ resp = Error(<<"path must start with /">>, 400)

\* a fetch without the leading "/" was answered with the script's content
C15_WitnessFetch ==
    /\ req.op = "GET" /\ ~HasPrefix(req.path, <<"/">>) /\ resp.status = 200

(* C16: in every reachable state the path of every stored script matches
   ^/[A-Za-z0-9_/.-]+\.sh$, with at least one character between the leading "/"
   and the ".sh"; a create or update with a path outside the grammar is
   refused. *)
C16_StoredPathsInGrammar ==
    /\ \A s \in scripts : MatchesGrammar(s.path)
    /\ (req.op \in WriteOps /\ ~MatchesGrammar(req.path)) => PathRejected

-----------------------------------------------------------------------------
(* vocabulary of the folder rules *)

\* the segments of a path
Segments(path) == Split(TrimPrefix(path, <<"/">>))

\* the paths of the ancestors of a script path: every proper prefix, the leaf excluded
Ancestors(path) ==
    {<<"/">> \o Join(SubSeq(Segments(path), 1, i)) : i \in 1..(Len(Segments(path)) - 1)}

\* the part of a path after its last "/"
LastSegment(path) == SubSeq(path, LastSlash(path) + 1, Len(path))

\* the position of an id among the uuid.New() values
UuidIndex(id) == CHOOSE n \in 0..99 : Uuid(n) = id

FolderPaths(fs) == {f.path : f \in fs}

(* C18: ensureFolders creates, from the shallowest to the deepest, a folder record
   for every proper prefix of the script path (the leaf excluded) that has none,
   each named after its own last segment, and nothing at the leaf; a second call
   with the same path creates nothing and leaves every folder record as it is. *)
C18_Walked(path, before, after) ==
    LET new == after \ before
    IN  /\ before \subseteq after
        /\ FolderPaths(new) = Ancestors(path) \ FolderPaths(before)
        /\ Cardinality(new) = Cardinality(FolderPaths(new))
        /\ \A f \in new : f.name = LastSegment(f.path)
        /\ \A f \in new, g \in new :
              Len(f.path) < Len(g.path) => UuidIndex(f.id) < UuidIndex(g.id)

C18_CreateStep ==
    (Idle /\ req'.op = "CREATE" /\ validatePath(req'.path) = << >>) =>
        /\ C18_Walked(req'.path, folders, folders')
        /\ ensureFolders(DB, req'.path).folders = folders'
        /\ ensureFolders(ensureFolders(DB, req'.path), req'.path).folders = folders'

C18_EnsureFolders == [][C18_CreateStep]_vars

\* the script is created below a folder that exists and a folder that does not: the missing
\* one was written and only that
C18_Witness ==
    /\ req.op = "CREATE" /\ req.path = PathF /\ resp.status = 201
    /\ \E f \in folders, g \in folders :
          /\ f.path = FolderD /\ g.path = FolderDE
          /\ UuidIndex(g.id) > UuidIndex(f.id) + 1

(* C19: after an update that changes a script's path, every ancestor prefix of
   the new path has a folder record, as after creating a script at that path. *)
C19_MoveEnsuresFolders ==
    (req.op = "UPDATE" /\ resp.status = 200) =>
        Ancestors(req.path) \subseteq FolderPaths(folders)

(* C17: when ensureFolders runs concurrently for two requests on script paths
   that share ancestors, under every interleaving of their get-folder and
   create-folder statements the store ends with exactly one folder record per
   ancestor path: on each contested path exactly one insert succeeds, the other
   is refused by the UNIQUE constraint and passed over, and neither request
   fails. *)
EnsureOps == {"CREATE", "MKDIR"}

\* the walk of the call is over
C17_WalkOver(c) == c.pc \in {"insert", "find", "done"}

C17_OneRecordPerAncestor ==
    (\A w \in Workers : calls[w].r.op \in EnsureOps) =>
        /\ \A f \in folders, g \in folders : f.path = g.path => f = g
        /\ \A w \in Workers :
              C17_WalkOver(calls[w]) =>
                  \A k \in 1..(Len(calls[w].walk) - 1) :
                      (<<"/">> \o Join(SubSeq(calls[w].walk, 1, k))) \in FolderPaths(folders)
        /\ \A w \in Workers, v \in Workers :
              w # v => /\ calls[w].made \cap calls[v].made = {}
                       /\ calls[w].refused \subseteq calls[v].made
        /\ \A w \in Workers :
              calls[w].pc = "done" =>
                  \/ calls[w].resp.status = 201
                  \/ /\ calls[w].resp.status = 409
                     /\ \E t \in scripts : t.path = calls[w].r.path

\* two creates of /t/u/v.sh are over: /t and /t/u were contested, each written by one call
\* and refused to the other
C17_Witness ==
    \E w \in Workers, v \in Workers :
        /\ w # v
        /\ calls[w].pc = "done" /\ calls[v].pc = "done"
        /\ calls[w].r.op = "CREATE" /\ calls[w].r.path = PathV
        /\ calls[v].r.op = "CREATE" /\ calls[v].r.path = PathV
        /\ calls[w].made = {<<"/", "t">>} /\ calls[w].refused = {<<"/", "t", "/", "u">>}
        /\ calls[v].refused = {<<"/", "t">>} /\ calls[v].made = {<<"/", "t", "/", "u">>}

(* C20: in every reachable state, under any interleaving of script creation,
   folder creation and folder deletion requests, no folder record skips an
   ancestor: a folder record at a path of two or more segments has a folder
   record at its parent path. *)
ParentPath(path) == <<"/">> \o Join(SubSeq(Segments(path), 1, Len(Segments(path)) - 1))

C20_NoSkippedAncestor ==
    \A f \in folders :
        Len(Segments(f.path)) >= 2 => ParentPath(f.path) \in FolderPaths(folders)

-----------------------------------------------------------------------------
(* C21: deleting a folder never deletes or modifies a script: after
   APIDeleteFolder the script records, those below the deleted folder included,
   are as they were, and each is still served at its path as before. *)
DBNext ==
    [scripts |-> scripts', folders |-> folders', tokens |-> tokens', versions |-> versions',
     audit |-> audit', uuids |-> uuids']

C21_Served(db, s) == HandleScript(db, now, GetRequest(s.path, << >>, << >>, << >>, Client1))

C21_DeleteStep ==
    (Idle /\ req'.op = "RMDIR") =>
        /\ scripts' = scripts
        /\ \A s \in scripts : C21_Served(DBNext, s) = C21_Served(DB, s)

C21_ScriptsOutliveFolders == [][C21_DeleteStep]_vars

\* a folder that held a script was deleted: the script is stored and its folder is not
C21_Witness ==
    /\ req.op = "RMDIR" /\ resp.status = 204
    /\ \E s \in scripts : /\ Ancestors(s.path) # {}
                          /\ Ancestors(s.path) \cap FolderPaths(folders) = {}

-----------------------------------------------------------------------------
(* C22: in every reachable state, under any interleaving of script creations,
   script moves and folder creations in flight together, no two script records
   share a path and no two folder records share a path; and of two creations
   of the same script path that have both been answered, exactly one was
   answered 201 and the other 409. *)
C22_UniquePaths ==
    /\ \A s \in scripts, t \in scripts : s.path = t.path => s = t
    /\ \A f \in folders, g \in folders : f.path = g.path => f = g
    /\ \A w \in Workers, v \in Workers :
          (/\ w # v
           /\ calls[w].pc = "done" /\ calls[v].pc = "done"
           /\ calls[w].r.op = "CREATE" /\ calls[v].r.op = "CREATE"
           /\ calls[w].r.path = calls[v].r.path)
          => {calls[w].resp.status, calls[v].resp.status} = {201, 409}

\* a creation and a move have raced for the same free path, and the move lost
C22_Witness ==
    \E w \in Workers, v \in Workers :
        /\ calls[w].pc = "done" /\ calls[w].r.op = "CREATE" /\ calls[w].r.path = PathV
        /\ calls[w].resp.status = 201
        /\ calls[v].pc = "done" /\ calls[v].r.op = "UPDATE" /\ calls[v].r.path = PathV
        /\ calls[v].resp.status = 500
        /\ calls[w].made # {} /\ calls[w].refused = {}

\* two creations of the same path have raced
C22_WitnessCreates ==
    \E w \in Workers, v \in Workers :
        /\ calls[w].pc = "done" /\ calls[w].r.op = "CREATE" /\ calls[w].r.path = PathV
        /\ calls[w].resp.status = 201
        /\ calls[v].pc = "done" /\ calls[v].r.op = "CREATE" /\ calls[v].r.path = PathV
        /\ calls[v].resp.status = 409
        /\ calls[v].made # {}

-----------------------------------------------------------------------------
(* C23: a script creation answered 409, the path being taken, leaves no partial
   state: the script, folder, version and audit records after the request are
   exactly those before it. *)
C23_ConflictStep ==
    (Idle /\ req'.op = "CREATE" /\ resp'.status = 409) =>
        /\ scripts' = scripts
        /\ folders' = folders
        /\ versions' = versions
        /\ audit' = audit

C23_ConflictLeavesNoState == [][C23_ConflictStep]_vars

-----------------------------------------------------------------------------
(* C24: for the folders {/a, /a/b} and the scripts {/a/b/c.sh, /x.sh} the tree
   has a root whose children are exactly a and x.sh, a has the single child b
   and b the single child c.sh; and in every tree no path is the path of more
   than one node. *)
C24_ExampleStore ==
    /\ FolderPaths(folders) = {FolderA, FolderAB}
    /\ {s.path : s \in scripts} = {PathABC, PathX}

\* the paths of the children of a node, when it has the expected number of them
C24_Children(node) == {child.path : child \in node.children}

C24_TreeOfExample ==
    (req.op = "TREE" /\ C24_ExampleStore) =>
        LET root == resp.body
        IN  /\ Cardinality(root.children) = 2
            /\ C24_Children(root) = {FolderA, PathX}
            /\ \A a \in root.children :
                  IF a.path = PathX THEN a.children = {}
                  ELSE /\ Cardinality(a.children) = 1
                       /\ \A b \in a.children :
                             /\ b.path = FolderAB
                             /\ Cardinality(b.children) = 1
                             /\ \A c \in b.children : c.path = PathABC /\ c.children = {}

\* the same for the tree of the admin page
C24_PageOfExample ==
    (req.op = "LOAD" /\ C24_ExampleStore) =>
        LET tree == resp.body
        IN  /\ DOMAIN tree.children = {FolderA, FolderAB}
            /\ {<<leaf.parent, leaf.path>> : leaf \in tree.scripts}
                  = {<<FolderAB, PathABC>>, <<<<"/">>, PathX>>}

\* the paths of the nodes of a tree
RECURSIVE C24_Paths(_)
C24_Paths(node) == {node.path} \cup UNION {C24_Paths(child) : child \in node.children}

\* no path is the path of two nodes of the tree
RECURSIVE C24_NoRepeat(_)
C24_NoRepeat(node) ==
    /\ \A child \in node.children : node.path \notin C24_Paths(child) /\ C24_NoRepeat(child)
    /\ \A c \in node.children, d \in node.children :
          c # d => C24_Paths(c) \cap C24_Paths(d) = {}

C24_TreeNoRepeat == req.op = "TREE" => C24_NoRepeat(resp.body)

\* in the tree of the admin page the folder nodes are keyed by their paths
C24_PageNoRepeat ==
    req.op = "LOAD" =>
        /\ \A leaf \in resp.body.scripts : leaf.path \notin DOMAIN resp.body.children
        /\ \A l \in resp.body.scripts, m \in resp.body.scripts : l.path = m.path => l = m

C24_OnePathOneNode ==
    /\ C24_TreeOfExample
    /\ C24_PageOfExample
    /\ C24_TreeNoRepeat
    /\ C24_PageNoRepeat

-----------------------------------------------------------------------------
(* C25: the tree places every script as a leaf under the chain of all its parent
   segments, with a folder node for each of them whether or not a folder record
   exists: for the script /a/b/c.sh and no folder records the tree is
   root -> a -> b -> c.sh. *)
\* the paths of the prefixes of a path, the path itself last
C25_Chain(path) ==
    [i \in 1..Len(Segments(path)) |-> <<"/">> \o Join(SubSeq(Segments(path), 1, i))]

\* the chain leads from the node down to a leaf
RECURSIVE C25_Under(_, _)
C25_Under(node, chain) ==
    IF chain = << >> THEN node.type = "script"
    ELSE \E child \in node.children : child.path = Head(chain) /\ C25_Under(child, Tail(chain))

C25_ScriptUnderItsChain ==
    req.op = "TREE" => \A s \in scripts : C25_Under(resp.body, C25_Chain(s.path))

\* the same for the tree of the admin page
C25_PageScriptUnderItsChain ==
    req.op = "LOAD" =>
        \A s \in scripts :
            /\ Ancestors(s.path) \subseteq DOMAIN resp.body.children
            /\ \E leaf \in resp.body.scripts :
                  leaf.path = s.path /\ leaf.parent = getParentPath(s.path)

-----------------------------------------------------------------------------
(* C26: in the tree a folder node at the path of a folder record carries the id
   of that record, whether or not scripts imply a folder at that path and in
   whatever order the folders and scripts were written; a folder node that only
   script paths imply carries no id. *)
\* the folder nodes below a node
RECURSIVE C26_FolderNodes(_)
C26_FolderNodes(node) ==
    UNION {(IF child.type = "folder" THEN {child} ELSE {}) \cup C26_FolderNodes(child) :
              child \in node.children}

\* the id the folder node at a path is to carry
C26_IdAt(path) ==
    IF path \in FolderPaths(folders) THEN (CHOOSE f \in folders : f.path = path).id ELSE Null

C26_RecordIdWins ==
    /\ req.op = "TREE" =>
          \A node \in C26_FolderNodes(resp.body) : node.id = C26_IdAt(node.path)
    /\ req.op = "LOAD" =>
          \A path \in DOMAIN resp.body.children :
              resp.body.children[path].id = C26_IdAt(path)

\* the admin page shows a folder whose record was written after a script below it,
\* and a folder that only a script implies
C26_Witness ==
    /\ req.op = "LOAD"
    /\ \E f \in folders, s \in scripts :
          /\ f.path \in Ancestors(s.path)
          /\ UuidIndex(f.id) > UuidIndex(s.id)
          /\ resp.body.children[f.path].id = f.id
    /\ \E path \in DOMAIN resp.body.children :
          path \notin FolderPaths(folders) /\ resp.body.children[path].id = Null

\* the tree of the server carries the folder of a record written after its script
C26_WitnessTree ==
    /\ req.op = "TREE"
    /\ \E f \in folders, s \in scripts, node \in C26_FolderNodes(resp.body) :
          /\ f.path \in Ancestors(s.path)
          /\ UuidIndex(f.id) > UuidIndex(s.id)
          /\ node.path = f.path /\ node.id = f.id

-----------------------------------------------------------------------------
(* C27: the catalog lists every stored script exactly once, a locked one with
   locked true; no entry carries the content or the password hash of a script;
   and the catalog is the same for two stores that differ only in the contents
   and the password hashes of their scripts. *)
\* the store with the content and the password hash of every script blanked
C27_Blanked(db) ==
    [db EXCEPT !.scripts = {[s EXCEPT !.content = << >>, !.password_hash = NoHash] : s \in @}]

C27_CatalogHidesSecrets ==
    req.op = "CATALOG" =>
        /\ Len(resp.body) = Cardinality(scripts)
        /\ \A s \in scripts :
              \E i \in DOMAIN resp.body :
                  /\ resp.body[i].path = s.path
                  /\ resp.body[i].locked = (s.locked = 1)
                  /\ \A j \in DOMAIN resp.body : resp.body[j].path = s.path => j = i
        /\ \A i \in DOMAIN resp.body :
              /\ DOMAIN resp.body[i] = {"path", "name", "description", "tags", "locked"}
              /\ \A s \in scripts, field \in {"path", "name", "description", "tags"} :
                    /\ resp.body[i][field] # s.content
                    /\ s.password_hash # NoHash => resp.body[i][field] # s.password_hash
        /\ resp.body = HandleCatalog(C27_Blanked(DB)).body

\* the catalog of a store with a locked script that has a hash and a script that is
\* not locked
C27_Witness ==
    /\ req.op = "CATALOG"
    /\ \E s \in scripts, t \in scripts, i \in DOMAIN resp.body :
          /\ s.locked = 1 /\ s.password_hash # NoHash /\ s.content = SecretA
          /\ t.locked = 0
          /\ resp.body[i].path = s.path /\ resp.body[i].locked

-----------------------------------------------------------------------------
(* C28: the catalog is sorted by the full path of the scripts, ascending, byte
   by byte, whatever scripts are stored. *)
C28_CatalogSorted ==
    req.op = "CATALOG" =>
        \A i \in DOMAIN resp.body, j \in DOMAIN resp.body :
            i < j => LessBytes(resp.body[i].path, resp.body[j].path)

\* a capital sorts before the small letters, and a path before the paths below it
C28_Witness ==
    /\ req.op = "CATALOG"
    /\ [i \in DOMAIN resp.body |-> resp.body[i].path] = <<PathCapB, PathABC, PathX>>

-----------------------------------------------------------------------------
(* C29: a storage failure is surfaced to the caller as an Internal error (500):
   a failing script lookup of a fetch or of an unlock, a failing token lookup of
   a gated fetch, a failing folder lookup or folder insert of the ancestor walk,
   and a failing script or folder listing of the tree are each answered 500, and
   not with NotFound, a password prompt, a success or a tree without the rows. *)
\* a statement that the last request ran has failed
C29_Struck ==
    /\ "faults" \in DOMAIN req
    /\ \/ req.op \in {"GET", "UNLOCK"} /\ "GetScriptByPath" \in req.faults
       \/ /\ req.op = "GET" /\ "GetAuthToken" \in req.faults
          /\ PresentedToken(req) # << >>
          /\ \E s \in LockedScripts : s.path = req.path
       \/ /\ req.op = "CREATE" /\ validatePath(req.path) = << >> /\ Ancestors(req.path) # {}
          /\ \/ "GetFolderByPath" \in req.faults
             \/ /\ "CreateFolder" \in req.faults
                /\ ~(Ancestors(req.path) \subseteq FolderPaths(folders))
       \/ req.op = "TREE" /\ req.faults # {}

C29_FaultIsInternal == C29_Struck => resp.status = 500

-----------------------------------------------------------------------------
(* C30: the token and its audit entry are two writes in sequence, not one atomic
   write.  When the password is right and the write of the token fails, the
   unlock is answered 500 without a token and neither a token row nor an audit
   entry is added.  When the token is written and the write of the
   UNLOCK_SUCCESS entry fails, the token row stays, the token is returned with
   200, and a fetch that presents it is served the script. *)
C30_IssueStep ==
    \A s \in scripts :
        (/\ Idle /\ req'.op = "UNLOCK" /\ req'.path = s.path
         /\ "GetScriptByPath" \notin req'.faults
         /\ s.locked # 0 /\ s.password_hash # NoHash
         /\ CompareHashAndPassword(s.password_hash, req'.password))
        => /\ "CreateAuthToken" \in req'.faults =>
                 /\ resp'.status = 500 /\ resp'.token = << >>
                 /\ tokens' = tokens /\ audit' = audit
           /\ req'.faults = {"CreateAuditLog"} =>
                 /\ resp'.status = 200 /\ resp'.token # << >>
                 /\ audit' = audit
                 /\ tokens \subseteq tokens'
                 /\ \E row \in tokens' \ tokens :
                       row.token = resp'.token /\ row.script_id = s.id
                 /\ HandleScript(DBNext, now,
                                 GetRequest(s.path, << >>, resp'.token, << >>, Client1))
                       = Granted(s)

C30_TokenOutlivesAudit == [][C30_IssueStep]_vars

\* a token was returned whose audit entry could not be written, and a later fetch
\* that presents it is served
C30_Witness ==
    /\ \E s \in LockedScripts : FetchOf(s) /\ resp = Granted(s)
    /\ tokens # {}
    /\ CountActions(audit, {"UNLOCK_SUCCESS"}) = 0

\* the write of the token has failed
C30_WitnessNoToken ==
    /\ req.op = "UNLOCK" /\ req.faults = {"CreateAuthToken"}
    /\ resp.status = 500 /\ resp.body = <<<<"Failed to create token">>>>

-----------------------------------------------------------------------------
(* C31: the audit log is append-only: no operation (unlock attempt, script
   create, update or delete, folder create or delete) modifies or removes an
   entry, and every successful script create, update and delete appends exactly
   one CREATE, UPDATE or DELETE entry that refers to that script. *)
C31_Last == audit'[Len(audit')]

C31_Step ==
    /\ Len(audit') >= Len(audit)
    /\ SubSeq(audit', 1, Len(audit)) = audit
    /\ (Idle /\ req'.op = "CREATE" /\ resp'.status = 201) =>
          /\ Len(audit') = Len(audit) + 1
          /\ C31_Last.action = "CREATE" /\ C31_Last.entity_path = req'.path
          /\ \E s \in scripts' \ scripts : s.id = C31_Last.entity_id /\ s.path = req'.path
    /\ (Idle /\ req'.op = "UPDATE" /\ resp'.status = 200) =>
          /\ Len(audit') = Len(audit) + 1
          /\ C31_Last.action = "UPDATE" /\ C31_Last.entity_path = req'.path
          /\ C31_Last.entity_id = req'.id
    /\ (Idle /\ req'.op = "DELETE" /\ resp'.status = 204) =>
          /\ Len(audit') = Len(audit) + 1
          /\ C31_Last.action = "DELETE" /\ C31_Last.entity_id = req'.id
          /\ \E s \in scripts \ scripts' : s.id = req'.id /\ s.path = C31_Last.entity_path
    /\ (Idle /\ req'.op \in {"MKDIR", "RMDIR"}) => audit' = audit

C31_AuditAppendOnly == [][C31_Step]_vars

\* a script was created, unlocked, updated and deleted, and a folder was deleted
C31_Witness ==
    /\ req.op = "RMDIR" /\ resp.status = 204
    /\ \E i, j, k, l \in DOMAIN audit :
          /\ i < j /\ j < k /\ k < l
          /\ audit[i].action = "CREATE" /\ audit[j].action \in UnlockActions
          /\ audit[k].action = "UPDATE" /\ audit[l].action = "DELETE"

\* the request presents ADMIN_TOKEN: in X-Admin-Token, or, that header being empty, in
\* Authorization with or without the prefix "Bearer "
C32_Presents(r) ==
    \/ r.x_admin_token = admin_token
    \/ r.x_admin_token = << >> /\ r.authorization \in {admin_token, BearerPrefix \o admin_token}

C32_AdminOps == {"CREATE", "DELETE", "MKDIR", "RMDIR", "TREE"}

C32_Denied == resp'.status = 401 /\ resp'.body = <<"Unauthorized">> /\ store' = store

C32_Handled ==
    LET out == AdminHandler(DB, req', foreign_keys)
    IN  /\ resp' = out.resp
        /\ store' = <<out.db.scripts, out.db.folders, out.db.tokens, out.db.versions,
                      out.db.audit, out.db.uuids>>

C32_TokenRequiredStep ==
    (Idle /\ req'.op \in C32_AdminOps /\ ~C32_Presents(req')) => C32_Denied

C32_Step ==
    (Idle /\ req'.op \in C32_AdminOps) =>
        /\ (admin_token # << >> /\ ~C32_Presents(req')) => C32_Denied
        /\ (admin_token = << >> \/ C32_Presents(req')) => C32_Handled

C33_Stored == {s \in scripts : s.path = req.path}

\* C33: a GET (no preview) of the path of a stored script that is not locked returns exactly
\* its stored content, and a GET of a path ending in .sh with no script record returns
\* NotFound; this for every path the validator accepts, /help.sh and /search.sh included
C33_ServedFromStore ==
    (req.op = "GET" /\ validatePath(req.path) = << >>) =>
        /\ \A s \in C33_Stored : s.locked = 0 => (resp.status = 200 /\ resp.body = s.content)
        /\ C33_Stored = {} => resp.status = 404

\* the records the nodes of a tree stand for, by type and id
RECURSIVE C34_Records(_)
C34_Records(node) ==
    {<<node.type, node.id>>} \cup UNION {C34_Records(child) : child \in node.children}

\* no record stands at two places of the tree
RECURSIVE C34_Once(_)
C34_Once(node) ==
    /\ \A child \in node.children :
          <<node.type, node.id>> \notin C34_Records(child) /\ C34_Once(child)
    /\ \A c \in node.children, d \in node.children :
          c # d => C34_Records(c) \cap C34_Records(d) = {}

\* C34: the tree APIGetTree returns contains every script record and every folder record
\* exactly once, reachable from the root, also when a folder was created with the path "/"
\* or with a trailing slash
C34_TreeHoldsEveryRecord ==
    req.op = "TREE" =>
        /\ \A s \in scripts : <<"script", s.id>> \in C34_Records(resp.body)
        /\ \A f \in folders : <<"folder", f.id>> \in C34_Records(resp.body)
        /\ C34_Once(resp.body)

\* a token row appears only in an unlock that verified the password of the row's script
C35_IssueStep ==
    \A row \in tokens' \ tokens :
        /\ Idle
        /\ req'.op = "UNLOCK"
        /\ resp'.status = 200
        /\ resp'.token = row.token
        /\ row.created_at = now
        /\ \E s \in scripts :
              /\ s.path = req'.path
              /\ s.id = row.script_id
              /\ s.locked # 0
              /\ CompareHashAndPassword(s.password_hash, req'.password)

\* the content of a locked script is served only within five minutes of such an unlock
C35_Gated ==
    \A s \in LockedScripts :
        (FetchOf(s) /\ resp = Granted(s)) =>
            \E row \in tokens :
                /\ row.script_id = s.id
                /\ row.created_at <= now
                /\ now - row.created_at <= TokenTTL

\* C35: every GatedContent response for a locked script is preceded, at most 5 minutes
\* earlier, by a successful password verification for the same script id; token rows are
\* created only by a successful unlock
C35_GatedAfterUnlock == [][C35_IssueStep]_vars /\ []C35_Gated

\* after a refused password for the script, its content is served on the last tick
\* of the five minutes that follow the unlock
C35_Witness ==
    \E s \in LockedScripts, row \in tokens :
        /\ FetchOf(s) /\ resp = Granted(s)
        /\ row.script_id = s.id
        /\ PresentedToken(req) = row.token
        /\ now - row.created_at = TokenTTL - 1
        /\ \E i \in 1..Len(audit) :
              audit[i].action = "UNLOCK_FAILED" /\ audit[i].entity_id = s.id

C36_FetchStep == (Idle /\ req'.op = "GET") => store' = store

\* C36: HandleScript changes no script, folder, version, token or audit record; a prompt
\* persists nothing and a gated fetch leaves the row of its token in place
C36_FetchIsReadOnly == [][C36_FetchStep]_vars

\* a gated fetch was granted, the row of the presented token is still stored and live, and
\* the audit log holds nothing beyond the creations and one entry per issued token
C36_Witness ==
    \E s \in LockedScripts, row \in tokens :
        /\ FetchOf(s) /\ resp = Granted(s)
        /\ row.token = req.query_token
        /\ row.script_id = s.id
        /\ row.expires_at > now
        /\ Len(audit) = Len(SeedDB.audit) + Cardinality(tokens)

\* a stored hash belongs to a locked script
C37_HashOnlyIfLocked == \A s \in scripts : s.password_hash # NoHash => s.locked # 0

\* what a successful create or update stores as the hash
C37_WriteStep ==
    /\ (Idle /\ req'.op = "CREATE" /\ resp'.status = 201) =>
          \A s \in scripts' \ scripts :
              IF req'.locked /\ req'.password # << >>
              THEN CompareHashAndPassword(s.password_hash, req'.password)
              ELSE s.password_hash = NoHash
    /\ (Idle /\ req'.op = "UPDATE" /\ resp'.status = 200) =>
          \A s \in scripts', old \in scripts :
              (s.id = req'.id /\ old.id = req'.id) =>
                  IF ~req'.locked THEN s.password_hash = NoHash
                  ELSE IF req'.password # << >>
                  THEN CompareHashAndPassword(s.password_hash, req'.password)
                  ELSE s.password_hash = old.password_hash

\* C37: a script has a non-null password_hash only if it is locked; creating or updating
\* it as unlocked stores no hash, so unlocking clears the hash, and locking it again
\* without a password does not bring a cleared hash back
C37_UnlockClearsHash == []C37_HashOnlyIfLocked /\ [][C37_WriteStep]_vars

\* a script that was unlocked with its password once, then updated to unlocked, is now
\* locked again by an update without password and has no hash
C37_Witness ==
    /\ req.op = "UPDATE" /\ resp.status = 200 /\ req.locked /\ req.password = << >>
    /\ \E s \in scripts :
          /\ s.id = req.id
          /\ s.locked # 0
          /\ s.password_hash = NoHash
          /\ \E i \in 1..Len(audit) :
                audit[i].action = "UNLOCK_SUCCESS" /\ audit[i].entity_id = s.id

\* what follows the last "/" of a path
C38_LastSegment(path) ==
    LET slashes == {i \in 1..Len(path) : path[i] = "/"}
        last    == IF slashes = {} THEN 0
                   ELSE CHOOSE i \in slashes : \A j \in slashes : j <= i
    IN  [k \in 1..(Len(path) - last) |-> path[last + k]]

\* C38: the name of every script is the last "/"-separated segment of its current path,
\* also after the script was moved, and the name of every folder is the last segment of
\* its path
C38_NameIsLastSegment ==
    /\ \A s \in scripts : s.name = C38_LastSegment(s.path)
    /\ \A f \in folders : f.name = C38_LastSegment(f.path)

\* a script was moved to a path with another last segment, beside the folder "/" of the
\* empty name
C38_Witness ==
    /\ \E s \in scripts, i \in 1..Len(audit), j \in 1..Len(audit) :
          /\ i < j
          /\ audit[i].action = "CREATE" /\ audit[i].entity_id = s.id
          /\ audit[j].action = "UPDATE" /\ audit[j].entity_id = s.id
          /\ audit[j].entity_path = s.path
          /\ C38_LastSegment(audit[i].entity_path) # C38_LastSegment(s.path)
    /\ \E f \in folders : f.path = FolderRoot /\ f.name = << >>

\* the version numbers recorded for a script, one per row
C39_Rows(id) == {i \in DOMAIN versions : versions[i].script_id = id}

\* C39: the version numbers of a script are unique and without gaps, 1 for the creation
\* and the previous maximum plus one for each update that changed the content, under any
\* interleaving of concurrent updates
C39_VersionsUniqueGapFree ==
    \A id \in {versions[i].script_id : i \in DOMAIN versions} :
        /\ \A i \in C39_Rows(id), j \in C39_Rows(id) :
              versions[i].version = versions[j].version => i = j
        /\ {versions[i].version : i \in C39_Rows(id)} = 1..Cardinality(C39_Rows(id))

\* the folder itself and the folders whose path continues it after a "/"
C40_Subtree(path) == {g \in folders : g.path = path \/ HasPrefix(g.path, path \o <<"/">>)}

C40_DeleteStep ==
    (Idle /\ req'.op = "RMDIR" /\ resp'.status = 204) =>
        \E f \in folders :
            /\ f.id = req'.id
            /\ folders' = folders \ C40_Subtree(f.path)

\* C40: deleting a folder removes exactly that folder and its strict descendants; every
\* other folder is unchanged, a sibling that differs only in the case of a letter or in the
\* character at the place of an underscore included
C40_DeletesOnlySubtree == [][C40_DeleteStep]_vars

====
